---- MODULE Spec2Model ----
(***************************************************************************)
(* Import pipeline of slot-data-app (src/app.py): Google Drive listing ->  *)
(* date filter -> import_log diff -> batches -> parallel fetch/normalize   *)
(* -> per-table COPY/UPSERT -> import_log commit.                          *)
(*                                                                         *)
(* The database is PostgreSQL (pg_insert, psycopg2 COPY).  A statement the *)
(* server rejects leaves the enclosing transaction aborted: every later    *)
(* statement of that transaction fails and its COMMIT rolls back.  A       *)
(* statement the driver rejects before sending it (a pd.NA parameter)      *)
(* leaves the transaction usable.                                          *)
(***************************************************************************)
EXTENDS Integers, Sequences, FiniteSets, TLC

(***************************************************************************)
(* Bounds of the model.                                                    *)
(***************************************************************************)
NumFiles == 4
MaxHash == 2
MaxFilesCfg == 2
MaxBatchesCfg == 2
MaxPathLen == 6
MaxRows == 2
MaxNodes == 4
PageSize == 2
MaxCount == 1

FileIds == 1..NumFiles

(***************************************************************************)
(* Cell values.  Every cell is a record of one shape so that any two cells *)
(* can be compared: k is the kind, s a text payload, n/d a number n/d.     *)
(***************************************************************************)
Null == [k |-> "null", s |-> "", n |-> 0, d |-> 1]
IntV(i) == [k |-> "int", s |-> "", n |-> i, d |-> 1]
TextV(t) == [k |-> "text", s |-> t, n |-> 0, d |-> 1]
FracV(a, b) == [k |-> "frac", s |-> "", n |-> a, d |-> b]
FloatV(a, b) == [k |-> "float", s |-> "", n |-> a, d |-> b]
DateVal(i) == [k |-> "date", s |-> "", n |-> i, d |-> 1]
\* The text "1/" followed by the decimal number p/q, and followed by the
\* text t that is no number.
FracD(p, q) == [k |-> "fracd", s |-> "", n |-> p, d |-> q]
FracT(t) == [k |-> "fract", s |-> t, n |-> 0, d |-> 1]
\* The kinds of cell whose text has a "/".
SlashKinds == {"frac", "fracd", "fract"}
\* Stands for the exception a conversion of the cell raises.
RaiseCell == [k |-> "raise", s |-> "", n |-> 0, d |-> 1]

Restrict(r, cols) == [c \in DOMAIN r \cap cols |-> r[c]]

\* Body applied to the value of e, e being worked out once.
With(e, Body(_)) == CHOOSE y \in {Body(x) : x \in {e}} : TRUE

(***************************************************************************)
(* COLUMN_MAP: raw column spelling -> canonical column, per store.         *)
(* Two mapped stores; StoreA knows a legacy alias and has a column that    *)
(* StoreB has not.                                                         *)
(***************************************************************************)
COLUMN_MAP ==
  [StoreA |-> [slot |-> "slot", BB |-> "BB", BBold |-> "BB", BBp |-> "BBp"],
   StoreB |-> [slot |-> "slot", BBp |-> "BBp"]]

prob_cols == {"BBp"}
int_cols == {"slot", "BB"}
pk == {"date", "machine", "slot"}

(***************************************************************************)
(* Text.  A path or a name is a sequence of tokens: "/" is the separator   *)
(* character, a token of DateTokens is a piece of text DATE_RE matches,    *)
(* any other token is a piece of text with no "/" and no match in it.      *)
(***************************************************************************)
\* date.fromisoformat on a piece of text DATE_RE matches: the date as the
\* number yyyymmdd, 0 when the digits are no calendar date (ValueError).
fromisoformat(tok) ==
  CASE tok = "2024-01-01" -> 20240101
    [] tok = "2024-01-02" -> 20240102
    [] tok = "2023-12-31" -> 20231231
    [] tok = "2024-01-03" -> 20240103
    [] tok = "2024-03-05" -> 20240305
    [] OTHER -> 0

\* The tokens \d{4}-\d{2}-\d{2} matches; the last one is no calendar date.
DateTokens ==
  {"2024-01-01", "2024-01-02", "2023-12-31", "2024-01-03", "2024-03-05", "2024-02-30"}

\* DATE_RE.search(name): the place of the first match in name, 0 for None.
DATE_RE_search(name) ==
  IF \A i \in 1..Len(name) : name[i] \notin DateTokens THEN 0
  ELSE CHOOSE i \in 1..Len(name) :
         name[i] \in DateTokens /\ \A j \in 1..(i - 1) : name[j] \notin DateTokens

\* str.strip("/")
strip(path) ==
  IF \A i \in 1..Len(path) : path[i] = "/" THEN <<>>
  ELSE SubSeq(path,
              CHOOSE i \in 1..Len(path) :
                path[i] # "/" /\ \A j \in 1..(i - 1) : path[j] = "/",
              CHOOSE i \in 1..Len(path) :
                path[i] # "/" /\ \A j \in (i + 1)..Len(path) : path[j] = "/")

\* The place of the k-th "/" of path; 0 for k = 0 and Len(path) + 1 past the
\* last one.
SlashAt(path, k) ==
  IF k = 0 THEN 0
  ELSE IF k > Cardinality({i \in 1..Len(path) : path[i] = "/"}) THEN Len(path) + 1
  ELSE CHOOSE i \in 1..Len(path) :
         path[i] = "/" /\ Cardinality({j \in 1..i : path[j] = "/"}) = k

\* str.split("/"): one part more than there are separators, empty parts kept.
split(path) ==
  [k \in 1..(Cardinality({i \in 1..Len(path) : path[i] = "/"}) + 1) |->
     SubSeq(path, SlashAt(path, k - 1) + 1, SlashAt(path, k) - 1)]

\* The text of a part as one string.
RECURSIVE Join(_)
Join(part) == IF Len(part) = 0 THEN "" ELSE Head(part) \o Join(Tail(part))

(***************************************************************************)
(* The remote tree: the files and their paths are fixed, the content of a  *)
(* file is a function of its current revision.  list_csv_recursive builds  *)
(* a path as cur + "/" + name from the empty root path.                     *)
(***************************************************************************)
FilePath(f) ==
  CASE f = 1 -> <<"/", "StoreA", "/", "MachineX", "/", "snap_", "2024-01-01", ".csv">>
    [] f = 2 -> <<"/", "StoreA", "/", "MachineX", "/", "copy_", "2024-01-01", ".csv">>
    [] f = 3 -> <<"/", "StoreB", "/", "MachineY", "/", "snap_", "2024-01-02", ".csv">>
    [] f = 4 -> <<"/", "StoreZ", "/", "MachineX", "/", "snap_", "2023-12-31", ".csv">>
    [] OTHER -> <<"/", "StoreA", "/", "MachineY", "/", "snap_", "2024-01-03", ".csv">>

\* The revisions file f goes through: files 1 and 3 are re-uploaded (file 3
\* starts without a checksum and is uploaded once more often), the others
\* never change.
MaxRev(f) == IF f = 1 THEN MaxHash ELSE IF f = 3 THEN MaxHash + 1 ELSE 1

\* md5Checksum of revision v; revision 0 is a file the store reports without
\* a checksum.
NoMd5 == "<absent>"
Md5Checksum(v) == IF v = 0 THEN NoMd5 ELSE "h" \o ToString(v)

RawRow(slot, bb, bbp) == [slot |-> slot, BB |-> bb, BBp |-> bbp]
RawRowB(slot, bbp, extra) == [slot |-> slot, BBp |-> bbp, vendor |-> extra]
RawRowOld(slot, bb, bbp) == [slot |-> slot, BBold |-> bb, BBp |-> bbp]
RawRowNoBB(slot, bbp) == [slot |-> slot, BBp |-> bbp]

\* What get_media + read_csv yield for revision v of file f: "raise" when
\* the download or the CSV parser raises, else the raw rows.
RawCsv(f, v) ==
  CASE f = 1 /\ v = 1 -> [kind |-> "ok", rows |-> <<RawRow(IntV(7), IntV(3), FracV(1, 133))>>]
    [] f = 1 /\ v = 2 -> [kind |-> "ok", rows |-> <<RawRowNoBB(IntV(7), FracV(1, 100))>>]
    [] f = 2 -> [kind |-> "ok", rows |-> <<RawRowOld(IntV(8), TextV(""), IntV(100))>>]
    [] f = 3 /\ v <= 1 -> [kind |-> "raise", rows |-> <<>>]
    [] f = 3 /\ v = 2 -> [kind |-> "ok", rows |-> <<RawRowB(TextV("x"), IntV(50), IntV(5)),
                                                   RawRowB(IntV(2), IntV(50), IntV(5))>>]
    [] f = 3 /\ v = 3 -> [kind |-> "ok", rows |-> <<RawRowB(IntV(1), FracV(1, 0), IntV(5))>>]
    [] f = 4 -> [kind |-> "ok", rows |-> <<RawRow(IntV(1), IntV(1), IntV(1))>>]
    [] f \in {1, 3} -> [kind |-> "ok", rows |-> <<>>]
    [] OTHER -> [kind |-> "ok", rows |-> <<RawRow(IntV(4), IntV(0), IntV(1))>>]

(***************************************************************************)
(* Pure functions.                                                         *)
(***************************************************************************)
\* What parse_meta gives when it raises.
ParseError(err) == [ok |-> FALSE, err |-> err, store |-> "", machine |-> "", date |-> 0]

\* parse_meta that splits the path as it is given.
parse_meta_NoStrip(path) ==
  LET parts == split(path)
      name == parts[Len(parts)]
      m == DATE_RE_search(name)
  IN IF Len(parts) < 3 THEN ParseError("too_short")
     ELSE IF m = 0 THEN ParseError("no_date")
     ELSE IF fromisoformat(name[m]) = 0 THEN ParseError("bad_date")
     ELSE [ok |-> TRUE, err |-> "", store |-> Join(parts[Len(parts) - 2]),
           machine |-> Join(parts[Len(parts) - 1]), date |-> fromisoformat(name[m])]

\* parse_meta: parts[-3], parts[-2] and the first date of parts[-1], or the
\* ValueError it raises: "too_short", "no_date", or "bad_date" when
\* date.fromisoformat refuses the digits DATE_RE matched.
parse_meta(path) ==
  LET parts == split(strip(path))
      name == parts[Len(parts)]
      m == DATE_RE_search(name)
  IN IF Len(parts) < 3 THEN ParseError("too_short")
     ELSE IF m = 0 THEN ParseError("no_date")
     ELSE IF fromisoformat(name[m]) = 0 THEN ParseError("bad_date")
     ELSE [ok |-> TRUE, err |-> "", store |-> Join(parts[Len(parts) - 2]),
           machine |-> Join(parts[Len(parts) - 1]), date |-> fromisoformat(name[m])]

\* parse_meta on the path of each file of the remote tree.
PathMeta == [f \in FileIds |-> parse_meta(FilePath(f))]

\* parse_meta(f["path"]) for a file_meta of the listing: its path is the
\* path of the remote file with its id.
meta_of(fm) == PathMeta[fm.id]

\* pd.to_numeric(errors="coerce") on one cell: a number stays, anything
\* else is NaN.
to_numeric(c) == IF c.k \in {"int", "float"} THEN c ELSE Null

\* 1.0 / x for a number cell x > 0.
Recip(x) == IF x.k = "int" THEN FloatV(1, x.n) ELSE FloatV(x.d, x.n)

\* The text after the first "/" of a cell that has one, through to_numeric.
Denominator(c) ==
  IF c.k = "frac" THEN IntV(c.d)
  ELSE IF c.k = "fracd" THEN FloatV(c.n, c.d)
  ELSE Null

\* The ratio branch with the plain numbers left as they are.
NormProb_KeepPlain(c) ==
  IF c.k \in SlashKinds
  THEN IF Denominator(c) = Null \/ Denominator(c).n <= 0 THEN FloatV(0, 1)
       ELSE Recip(Denominator(c))
  ELSE IF to_numeric(c) = Null THEN FloatV(0, 1)
       ELSE FloatV(to_numeric(c).n, to_numeric(c).d)

\* The ratio branch of normalize for one cell: a cell with a "/" becomes
\* 1/denominator, or 0 when the denominator is <= 0 or no number; a plain
\* number above 1 becomes its reciprocal, any other number stays, anything
\* else becomes 0.
NormProb(c) ==
  IF c.k \in SlashKinds
  THEN IF Denominator(c) = Null \/ Denominator(c).n <= 0 THEN FloatV(0, 1)
       ELSE Recip(Denominator(c))
  ELSE IF to_numeric(c) = Null THEN FloatV(0, 1)
       ELSE IF to_numeric(c).n > to_numeric(c).d THEN Recip(to_numeric(c))
       ELSE FloatV(to_numeric(c).n, to_numeric(c).d)

\* The integer branch of normalize for one cell: Int64, NA when no number;
\* astype("Int64") raises on a number with a fractional part.
NormInt(c) ==
  IF to_numeric(c) = Null THEN Null
  ELSE IF c.n % c.d = 0 THEN IntV(c.n \div c.d)
  ELSE RaiseCell

\* The name df_raw.rename(columns=COLUMN_MAP[store]) gives column x.
Renamed(x, store) == IF x \in DOMAIN COLUMN_MAP[store] THEN COLUMN_MAP[store][x] ELSE x

\* df_raw.rename(columns=COLUMN_MAP[store]) on one row.
RenameRow(r, store) ==
  [c \in {Renamed(x, store) : x \in DOMAIN r} |->
     r[CHOOSE x \in DOMAIN r : Renamed(x, store) = c]]

normalizeRow(r, store) ==
  LET rr == RenameRow(r, store)
  IN [c \in DOMAIN rr |->
        IF c \in prob_cols THEN NormProb(rr[c])
        ELSE IF c \in int_cols THEN NormInt(rr[c])
        ELSE rr[c]]

\* Two columns of the frame get the same ratio or integer name: df[col] is
\* then a frame, not a series, and the conversion raises.
DuplicateCols(r, store) ==
  \E x, y \in DOMAIN r :
    x # y /\ Renamed(x, store) = Renamed(y, store)
    /\ Renamed(x, store) \in prob_cols \cup int_cols

Raised == [kind |-> "raise", rows |-> <<>>]

\* normalize: a data frame is the sequence of its rows, each a function
\* from its columns to cells; "raise" when a conversion raises.
normalize(df_raw, store) ==
  LET rows == [i \in 1..Len(df_raw) |-> normalizeRow(df_raw[i], store)]
  IN IF \E i \in 1..Len(df_raw) : DuplicateCols(df_raw[i], store) THEN Raised
     ELSE IF \E i \in 1..Len(rows) : \E c \in DOMAIN rows[i] : rows[i][c] = RaiseCell
     THEN Raised
     ELSE [kind |-> "ok", rows |-> rows]

\* read_csv(usecols=...): the columns of the header COLUMN_MAP[store] names.
usecols(rows, store) ==
  [i \in 1..Len(rows) |-> Restrict(rows[i], DOMAIN COLUMN_MAP[store])]

\* load_and_normalize on what get_media returned for the file.
load_and_normalize(raw, store) ==
  IF raw.kind = "raise" THEN Raised ELSE normalize(usecols(raw.rows, store), store)

(***************************************************************************)
(* The relational store.  A table is [exists, cols, rows]; rows is a set   *)
(* of functions from cols to cells, with at most one row per primary key.  *)
(***************************************************************************)
Stores == DOMAIN COLUMN_MAP
TableName(store) == "slot_" \o store
Tables == {TableName(s) : s \in Stores}
NoTable == [exists |-> FALSE, cols |-> {}, rows |-> {}]

PK(r) == <<r["date"], r["machine"], r["slot"]>>
Keys(rows) == {PK(r) : r \in rows}
ColumnsOf(df) == IF Len(df) = 0 THEN {} ELSE DOMAIN df[1]

\* ensure_store_table with no has_table test: the table is created anew at
\* every call.
ensure_store_table_Recreate(t, store) ==
  [exists |-> TRUE,
   cols |-> pk \cup {COLUMN_MAP[store][x] : x \in DOMAIN COLUMN_MAP[store]},
   rows |-> {}]

\* ensure_store_table: create the table when the inspector does not find
\* it, otherwise reflect the existing one.
ensure_store_table(t, store) ==
  IF ~t.exists
  THEN [exists |-> TRUE,
        cols |-> pk \cup {COLUMN_MAP[store][x] : x \in DOMAIN COLUMN_MAP[store]},
        rows |-> {}]
  ELSE t

\* INSERT (insCols) ... ON CONFLICT (pk) DO UPDATE SET c = EXCLUDED.c for c
\* in updCols, applied to the rows news, no two of which share a key.
SqlUpsert(t, news, insCols, updCols) ==
  LET proposed(r) == [c \in t.cols |-> IF c \in insCols /\ c \in DOMAIN r THEN r[c] ELSE Null]
      merged(old, r) == [c \in t.cols |-> IF c \in updCols THEN proposed(r)[c] ELSE old[c]]
      newKeys == {PK(news[i]) : i \in 1..Len(news)}
      written(r) == IF PK(r) \in Keys(t.rows)
                    THEN merged(CHOOSE old \in t.rows : PK(old) = PK(r), r)
                    ELSE proposed(r)
  IN [t EXCEPT !.rows = {x \in t.rows : PK(x) \notin newKeys}
                        \cup {written(news[i]) : i \in 1..Len(news)}]

\* The constraints the store table declares (nullable=False on the key
\* columns, PrimaryKeyConstraint): a statement carrying a null key cell, or
\* one that would write the same key twice, is rejected.
HasNullKey(df) == \E i \in 1..Len(df) : \E c \in pk : c \notin DOMAIN df[i] \/ df[i][c] = Null
HasDupKey(df) == \E i, j \in 1..Len(df) : i < j /\ PK(df[i]) = PK(df[j])
Rejected(df) == HasNullKey(df) \/ (~HasNullKey(df) /\ HasDupKey(df))

(***************************************************************************)
(* process_one_file and the merge strategies of run_import_for_targets.    *)
(***************************************************************************)
\* process_one_file with a bare "except: return None": a task that raises
\* is dropped without an error entry.
process_one_file_kind_Swallow(fm, rev) ==
  LET m == meta_of(fm)
  IN IF ~m.ok THEN "none"
     ELSE IF m.store \notin DOMAIN COLUMN_MAP THEN "none"
     ELSE IF load_and_normalize(RawCsv(fm.id, rev), m.store).kind = "raise" THEN "none"
     ELSE IF Len(load_and_normalize(RawCsv(fm.id, rev), m.store).rows) = 0 THEN "none"
     ELSE "ok"

\* Which of its three exits process_one_file takes for file_meta fm when the
\* remote file is at revision rev: "error" (the except branch), "none"
\* (store not in COLUMN_MAP, or empty frame), "ok".
process_one_file_kind(fm, rev) ==
  LET m == meta_of(fm)
  IN IF ~m.ok THEN "error"
     ELSE IF m.store \notin DOMAIN COLUMN_MAP THEN "none"
     ELSE IF load_and_normalize(RawCsv(fm.id, rev), m.store).kind = "raise" THEN "error"
     ELSE IF Len(load_and_normalize(RawCsv(fm.id, rev), m.store).rows) = 0 THEN "none"
     ELSE "ok"

\* The dict process_one_file returns on its "ok" exit.
process_one_file(fm, rev) ==
  LET m == meta_of(fm)
      df0 == load_and_normalize(RawCsv(fm.id, rev), m.store).rows
      df == [i \in 1..Len(df0) |->
               [c \in DOMAIN df0[i] \cup {"machine", "date"} |->
                  IF c = "machine" THEN TextV(m.machine)
                  ELSE IF c = "date" THEN DateVal(m.date)
                  ELSE df0[i][c]]]
  IN [table_name |-> TableName(m.store), df |-> df, store |-> m.store,
      machine |-> m.machine, date |-> m.date, file_id |-> fm.id,
      md5 |-> IF fm.md5 = NoMd5 THEN "" ELSE fm.md5, path |-> fm.path]

\* df[c] = pd.NA for every table column the frame lacks (done in place).
FillMissing(df, valid_cols) ==
  [i \in 1..Len(df) |->
     [c \in DOMAIN df[i] \cup valid_cols |-> IF c \in DOMAIN df[i] THEN df[i][c] ELSE Null]]

SelectCols(df, cols) == [i \in 1..Len(df) |-> Restrict(df[i], cols)]

RECURSIVE ConcatDfs(_)
ConcatDfs(dfs) == IF Len(dfs) = 0 THEN <<>> ELSE Head(dfs) \o ConcatDfs(Tail(dfs))

\* bulk_upsert_copy_merge with ON CONFLICT DO NOTHING in place of DO UPDATE.
bulk_upsert_copy_merge_DoNothing(t, df, copy_ok) ==
  IF Len(df) = 0 THEN [ok |-> TRUE, t |-> t]
  ELSE LET cols == ColumnsOf(df) \cap t.cols
           df_use == SelectCols(df, cols)
       IN IF ~(pk \subseteq cols) THEN [ok |-> FALSE, t |-> t]
          ELSE IF ~copy_ok \/ Rejected(df_use) THEN [ok |-> FALSE, t |-> t]
          ELSE [ok |-> TRUE, t |-> SqlUpsert(t, df_use, cols, {})]

\* The four statements of the fast path, in the order the cursor runs them.
FastStmts == <<"create", "copy", "insert", "drop">>

\* No staging table.
NoStaging == [exists |-> FALSE, rows |-> <<>>]

\* The transaction of the fast path when it begins: the target table as the
\* transaction sees it, its staging table, and whether a statement raised.
FastBegin(t) == [t |-> t, tmp |-> NoStaging, raised |-> FALSE]

\* Statement stmt of the fast path inside transaction tx.  fail names the
\* statement the server fails for a reason of its own ("none": no such
\* statement).  The staging table is created LIKE the target INCLUDING ALL,
\* so the bulk load is checked against the target's NOT NULL and primary key
\* constraints.  A statement that raises leaves the with block: the later
\* statements do not run.
FastStmt(tx, stmt, df_use, cols, fail) ==
  IF tx.raised THEN tx
  ELSE IF stmt = fail THEN [tx EXCEPT !.raised = TRUE]
  ELSE IF stmt = "create" THEN [tx EXCEPT !.tmp = [exists |-> TRUE, rows |-> <<>>]]
  ELSE IF stmt = "copy"
       THEN IF Rejected(df_use) THEN [tx EXCEPT !.raised = TRUE]
            ELSE [tx EXCEPT !.tmp = [exists |-> TRUE, rows |-> df_use]]
  ELSE IF stmt = "insert"
       THEN [tx EXCEPT !.t = SqlUpsert(tx.t, tx.tmp.rows, cols, cols \ pk)]
  ELSE [tx EXCEPT !.tmp = NoStaging]

\* A connection in autocommit mode: what the statements before the failing
\* one did stays.
FastEnd_Autocommit(t, tx) == [ok |-> ~tx.raised, t |-> tx.t, tmp |-> tx.tmp]

\* The end of "with eng.begin() as conn": COMMIT, or ROLLBACK when a
\* statement raised, which also undoes the CREATE TEMP TABLE.
FastEnd(t, tx) ==
  IF tx.raised THEN [ok |-> FALSE, t |-> t, tmp |-> NoStaging]
  ELSE [ok |-> TRUE, t |-> tx.t, tmp |-> tx.tmp]

\* The transaction of the fast path as a whole: [ok, t, tmp].
FastTxn(t, df_use, cols, fail) ==
  With(FastStmt(FastBegin(t), FastStmts[1], df_use, cols, fail), LAMBDA s1 :
  With(FastStmt(s1, FastStmts[2], df_use, cols, fail), LAMBDA s2 :
  With(FastStmt(s2, FastStmts[3], df_use, cols, fail), LAMBDA s3 :
  With(FastStmt(s3, FastStmts[4], df_use, cols, fail), LAMBDA s4 :
  FastEnd(t, s4)))))

\* bulk_upsert_copy_merge: temp table LIKE the target INCLUDING ALL, COPY,
\* INSERT .. SELECT .. ON CONFLICT DO UPDATE, DROP, in one transaction.
\* copy_ok is FALSE when the server fails the bulk load for a reason of its
\* own.  The result is [ok, t]: on failure the transaction rolls back.
bulk_upsert_copy_merge(t, df, copy_ok) ==
  IF Len(df) = 0 THEN [ok |-> TRUE, t |-> t]
  ELSE LET cols == ColumnsOf(df) \cap t.cols
           df_use == SelectCols(df, cols)
       IN IF ~(pk \subseteq cols) THEN [ok |-> FALSE, t |-> t]
          ELSE With(FastTxn(t, df_use, cols, IF copy_ok THEN "none" ELSE "copy"),
                    LAMBDA r : [ok |-> r.ok, t |-> r.t])

\* upsert_dataframe whose SET clause names the columns of the frame only: a
\* table column the frame lacks keeps its old value.
upsert_dataframe_KeepAbsent(tx, df, env) ==
  IF Len(df) = 0 THEN [t |-> tx.t, aborted |-> tx.aborted, raised |-> FALSE]
  ELSE IF tx.aborted THEN [t |-> tx.t, aborted |-> TRUE, raised |-> TRUE]
  ELSE IF env = "client" THEN [t |-> tx.t, aborted |-> FALSE, raised |-> TRUE]
  ELSE IF env = "server" \/ Rejected(df) THEN [t |-> tx.t, aborted |-> TRUE, raised |-> TRUE]
  ELSE [t |-> SqlUpsert(tx.t, df, ColumnsOf(df), ColumnsOf(df) \ pk),
        aborted |-> FALSE, raised |-> FALSE]

\* upsert_dataframe inside an open transaction tx = [t, aborted].  env is
\* "ok", "client" (the driver refuses the statement, the transaction stays
\* usable) or "server" (the server fails it).  The result adds raised.
upsert_dataframe(tx, df, env) ==
  IF Len(df) = 0 THEN [t |-> tx.t, aborted |-> tx.aborted, raised |-> FALSE]
  ELSE IF tx.aborted THEN [t |-> tx.t, aborted |-> TRUE, raised |-> TRUE]
  ELSE IF env = "client" THEN [t |-> tx.t, aborted |-> FALSE, raised |-> TRUE]
  ELSE IF env = "server" \/ Rejected(df) THEN [t |-> tx.t, aborted |-> TRUE, raised |-> TRUE]
  ELSE [t |-> SqlUpsert(tx.t, df, ColumnsOf(df), tx.t.cols \ pk),
        aborted |-> FALSE, raised |-> FALSE]

ErrFile(path) == [kind |-> "file", path |-> path, table |-> ""]
ErrCopy(table) == [kind |-> "copy", path |-> <<>>, table |-> table]
ErrUpsert(path) == [kind |-> "upsert", path |-> path, table |-> ""]

\* The fallback loop: one transaction, one statement per file, each in its
\* own try/except.  st = [t, aborted, errs].
RECURSIVE FallbackLoop(_, _, _, _)
FallbackLoop(st, items, env, i) ==
  IF i > Len(items) THEN st
  ELSE LET df_one == SelectCols(items[i].df, st.t.cols)
           r == upsert_dataframe([t |-> st.t, aborted |-> st.aborted], df_one, env[i])
       IN FallbackLoop([t |-> r.t, aborted |-> r.aborted,
                        errs |-> IF r.raised THEN Append(st.errs, ErrUpsert(items[i].path))
                                 ELSE st.errs],
                       items, env, i + 1)

\* Fallback that recreates the table empty when its transaction aborted.
Fallback_Truncate(t, items, env) ==
  LET st == FallbackLoop([t |-> t, aborted |-> FALSE, errs |-> <<>>], items, env, 1)
  IN [t |-> IF st.aborted THEN [t EXCEPT !.rows = {}] ELSE st.t, errs |-> st.errs]

\* with eng.begin(): COMMIT at the end; an aborted transaction rolls back.
Fallback(t, items, env) ==
  LET st == FallbackLoop([t |-> t, aborted |-> FALSE, errs |-> <<>>], items, env, 1)
  IN [t |-> IF st.aborted THEN t ELSE st.t, errs |-> st.errs]

\* The use_copy = False branch: the first statement that raises leaves the
\* with block, the transaction rolls back and the exception propagates.
RECURSIVE SafeLoop(_, _, _, _)
SafeLoop(tx, items, env, i) ==
  IF i > Len(items) THEN [t |-> tx.t, raised |-> FALSE]
  ELSE LET r == upsert_dataframe(tx, SelectCols(items[i].df, tx.t.cols), env[i])
       IN IF r.raised THEN [t |-> tx.t, raised |-> TRUE]
          ELSE SafeLoop([t |-> r.t, aborted |-> FALSE], items, env, i + 1)

SafePath(t, items, env) ==
  LET r == SafeLoop([t |-> t, aborted |-> FALSE], items, env, 1)
  IN [t |-> IF r.raised THEN t ELSE r.t, raised |-> r.raised]

\* The use_copy = True branch with the fallback in a finally clause: it runs
\* whether or not the fast path raised.
CopyPath_Finally(t, items, copy_ok, env) ==
  LET filled == [i \in 1..Len(items) |->
                   [items[i] EXCEPT !.df = FillMissing(items[i].df, t.cols)]]
      df_all == ConcatDfs([i \in 1..Len(filled) |-> SelectCols(filled[i].df, t.cols)])
  IN With(bulk_upsert_copy_merge(t, df_all, copy_ok), LAMBDA fast :
     With(Fallback(fast.t, filled, env), LAMBDA fb :
       [t |-> fb.t, errs |-> <<ErrCopy(items[1].table_name)>> \o fb.errs,
        items |-> filled, fast |-> fast.ok]))

\* The use_copy = True branch for one table: [t, errs, items] where items
\* carry the frames as the try block left them.
CopyPath(t, items, copy_ok, env) ==
  LET filled == [i \in 1..Len(items) |->
                   [items[i] EXCEPT !.df = FillMissing(items[i].df, t.cols)]]
      df_all == ConcatDfs([i \in 1..Len(filled) |-> SelectCols(filled[i].df, t.cols)])
      fb == Fallback(t, filled, env)
  IN With(bulk_upsert_copy_merge(t, df_all, copy_ok), LAMBDA fast :
       IF fast.ok THEN [t |-> fast.t, errs |-> <<>>, items |-> filled, fast |-> TRUE]
       ELSE [t |-> fb.t, errs |-> <<ErrCopy(items[1].table_name)>> \o fb.errs,
             items |-> filled, fast |-> FALSE])

\* The ledger entry with the row count left at 0.
LogEntry_NoCount(res) ==
  [md5 |-> res.md5, path |-> res.path, store |-> res.store, machine |-> res.machine,
   date |-> res.date, rows |-> 0]

\* The entry run_import_for_targets builds for a collected result.
LogEntry(res) ==
  [md5 |-> res.md5, path |-> res.path, store |-> res.store, machine |-> res.machine,
   date |-> res.date, rows |-> Len(res.df)]

(***************************************************************************)
(* State.                                                                  *)
(***************************************************************************)
VARIABLES
  remote,       \* remote tree: file id -> current revision (0: no checksum)
  cache,        \* st.cache_data entry of list_csv_recursive, or NoCache
  db,           \* table name -> table
  ledger,       \* import_log: file id -> entry
  pc,           \* position of the import handler
  cfg,          \* the widgets' values of the running invocation
  all_targets,  \* the sorted delta set
  batches,      \* the batches the loop iterates over
  bi,           \* number of batches started
  futures,      \* file_metas of the current batch not yet completed
  bucket,       \* <<[table_name, items]>> in first-insertion order
  gi,           \* number of table groups of the bucket already written
  errors,       \* errors of the current batch
  entries,      \* import_log_entries of the current batch
  all_errors,   \* errors of the invocation
  done_files,   \* done_files of the invocation
  remaining,    \* the count the final info message shows, -1 when none
  submitted,    \* number of files handed to the pool in this invocation
  inp,          \* the argument of a function called on its own
  out,          \* what that call returned
  scan          \* the locals of list_csv_recursive while it runs on a tree

\* The state of the import handler and of the stores it works on.
app_vars == <<remote, cache, db, ledger, pc, cfg, all_targets, batches, bi, futures,
              bucket, gi, errors, entries, all_errors, done_files, remaining, submitted>>

\* The state of a function exercised on its own.
aux == <<inp, out, scan>>

vars == <<app_vars, aux>>

\* No call, no result, no scan.
NoCall == [fn |-> "none", v |-> <<>>, store |-> ""]
NoResult == [pass |-> 0, v |-> <<>>]
NoScan == [running |-> FALSE]
AuxIdle == inp = NoCall /\ out = NoResult /\ scan = NoScan

Workers == 2
NoCache == [hit |-> FALSE, files |-> <<>>]
DateRanges == {<<20240101, 20240103>>, <<20230101, 20240103>>}
Configs ==
  [max_files : 1..MaxFilesCfg, max_batches : 1..MaxBatchesCfg, auto_batch : BOOLEAN,
   use_copy : BOOLEAN, workers : {Workers}, range : DateRanges]
IdleCfg ==
  [max_files |-> 1, max_batches |-> 1, auto_batch |-> FALSE, use_copy |-> TRUE,
   workers |-> Workers, range |-> <<20240101, 20240103>>]
StmtEnv == {"ok", "client", "server"}

\* What the Drive listing returns now, in a fixed order.
RemoteListing ==
  [f \in FileIds |-> [id |-> f, md5 |-> Md5Checksum(remote[f]), path |-> FilePath(f)]]

\* list_csv_recursive under st.cache_data: the stored value when there is
\* one, else a fresh listing.
list_csv_recursive == IF cache.hit THEN cache.files ELSE RemoteListing

InRange(fm, range) ==
  range[1] <= meta_of(fm).date /\ meta_of(fm).date <= range[2]

FilterRaises(files_all) == \E i \in 1..Len(files_all) : ~meta_of(files_all[i]).ok

get_imported_md5_map == [f \in DOMAIN ledger |-> ledger[f].md5]

\* imported_md5.get(f["id"], "") != (f.get("md5Checksum") or "")
IsTarget(fm) ==
  LET m == get_imported_md5_map
  IN (IF fm.id \in DOMAIN m THEN m[fm.id] ELSE "") # (IF fm.md5 = NoMd5 THEN "" ELSE fm.md5)

\* The place list.sort(key=date) gives element i of seq: the sort is stable,
\* so equal dates keep their listing order.
SortRank(seq, i) ==
  1 + Cardinality({j \in 1..Len(seq) :
        \/ meta_of(seq[j]).date < meta_of(seq[i]).date
        \/ /\ meta_of(seq[j]).date = meta_of(seq[i]).date
           /\ j < i})

\* The delta set left in the order of the listing.
SortByDate_Unsorted(seq) == seq

\* all_targets.sort(key=lambda f: parse_meta(f["path"])[2])
SortByDate(seq) ==
  [p \in 1..Len(seq) |-> seq[CHOOSE i \in 1..Len(seq) : SortRank(seq, i) = p]]

Min(a, b) == IF a < b THEN a ELSE b

\* The delta set as one batch, max_files ignored.
MakeBatches_One(targets, max_files) == <<targets>>

\* [all_targets[i : i + max_files] for i in range(0, len(all_targets), max_files)]
MakeBatches(targets, max_files) ==
  [k \in 1..((Len(targets) + max_files - 1) \div max_files) |->
     SubSeq(targets, (k - 1) * max_files + 1, Min(k * max_files, Len(targets)))]

\* batches[: n]
Take(seq, n) == SubSeq(seq, 1, Min(n, Len(seq)))

\* The loop running over batches instead of batches[: max_batches].
LoopBatches_All(bs, c) == bs

\* The batches the loop of the handler runs over.
LoopBatches(bs, c) == Take(bs, c.max_batches)

RECURSIVE SumLen(_)
SumLen(seqs) == IF Len(seqs) = 0 THEN 0 ELSE Len(Head(seqs)) + SumLen(Tail(seqs))

(***************************************************************************)
(* Initial state and actions.                                              *)
(***************************************************************************)
Transient ==
  /\ all_targets = <<>> /\ batches = <<>> /\ bi = 0 /\ futures = <<>>
  /\ bucket = <<>> /\ gi = 0 /\ errors = <<>> /\ entries = <<>>
  /\ all_errors = <<>> /\ done_files = 0 /\ remaining = -1 /\ submitted = 0

Init ==
  /\ remote = [f \in FileIds |-> IF f = 3 THEN 0 ELSE 1]
  /\ cache = NoCache
  /\ db = [t \in Tables |-> NoTable]
  /\ ledger = <<>>
  /\ pc = "idle"
  /\ cfg = IdleCfg
  /\ Transient
  /\ AuxIdle

\* The owner of the remote tree uploads a new revision of file f.
RemoteChange(f) ==
  /\ pc = "idle"
  /\ remote[f] < MaxRev(f)
  /\ remote' = [remote EXCEPT ![f] = @ + 1]
  /\ UNCHANGED <<aux, cache, db, ledger, pc, cfg, all_targets, batches, bi, futures, bucket,
                 gi, errors, entries, all_errors, done_files, remaining, submitted>>

\* The Streamlit server process restarts: st.cache_data starts empty.
ServerRestart ==
  /\ pc = "idle"
  /\ cache.hit
  /\ cache' = NoCache
  /\ UNCHANGED <<aux, remote, db, ledger, pc, cfg, all_targets, batches, bi, futures, bucket,
                 gi, errors, entries, all_errors, done_files, remaining, submitted>>

\* files = [f for f in files_all if imp_start <= parse_meta(f["path"])[2] <= imp_end]
DateFilter(files_all, range) == SelectSeq(files_all, LAMBDA fm : InRange(fm, range))

\* all_targets = [f for f in files if imported_md5.get(...) != ...]
LedgerDiff(files) == SelectSeq(files, IsTarget)

\* batches, after "if not auto_batch: batches = batches[:1]".
Schedule(sorted, c) ==
  IF ~c.auto_batch THEN Take(MakeBatches(sorted, c.max_files), 1)
  ELSE MakeBatches(sorted, c.max_files)

\* The import button with widget values c: listing, date filter, diff,
\* sort, batch slicing, and the submission of the first batch to the pool.
StartImport(c) ==
  /\ pc = "idle"
  /\ ~FilterRaises(list_csv_recursive)
  /\ \E targets \in {LedgerDiff(DateFilter(list_csv_recursive, c.range))} :
     \E sorted \in {SortByDate(targets)} :
     \E bs \in {Schedule(sorted, c)} :
       /\ cache' = [hit |-> TRUE, files |-> list_csv_recursive]
       /\ cfg' = c
       /\ all_targets' = sorted
       /\ batches' = bs
       /\ IF Len(sorted) = 0
          THEN /\ pc' = "done"
               /\ UNCHANGED <<bi, futures, submitted>>
          ELSE /\ pc' = "fetch"
               /\ bi' = 1
               /\ futures' = LoopBatches(bs, c)[1]
               /\ submitted' = Len(LoopBatches(bs, c)[1])
  /\ UNCHANGED <<aux, remote, db, ledger, bucket, gi, errors, entries, all_errors,
                 done_files, remaining>>

RemoveAt(seq, k) == SubSeq(seq, 1, k - 1) \o SubSeq(seq, k + 1, Len(seq))

\* The collector with a list of results in place of the dict of lists: one
\* group per result.
BucketAppend_NoGroup(b, res) == Append(b, [table_name |-> res.table_name, items |-> <<res>>])

\* bucket[res["table_name"]].append(res)
BucketAppend(b, res) ==
  IF \E i \in 1..Len(b) : b[i].table_name = res.table_name
  THEN [i \in 1..Len(b) |->
          IF b[i].table_name = res.table_name
          THEN [b[i] EXCEPT !.items = Append(@, res)] ELSE b[i]]
  ELSE Append(b, [table_name |-> res.table_name, items |-> <<res>>])

\* One future completes and as_completed hands its result to the collector.
\* The pool runs the first cfg.workers pending tasks; any of them may be the
\* next to complete.
TaskDone(k) ==
  /\ pc = "fetch"
  /\ k \in 1..Min(cfg.workers, Len(futures))
  /\ LET fm == futures[k]
         kind == process_one_file_kind(fm, remote[fm.id])
     IN /\ futures' = RemoveAt(futures, k)
        /\ errors' = IF kind = "error" THEN Append(errors, ErrFile(fm.path)) ELSE errors
        /\ bucket' = IF kind = "ok" THEN BucketAppend(bucket, process_one_file(fm, remote[fm.id]))
                     ELSE bucket
        /\ pc' = IF Len(futures) > 1 THEN "fetch"
                 ELSE IF Len(bucket') = 0 THEN "commit" ELSE "merge"
  /\ UNCHANGED <<aux, remote, cache, db, ledger, cfg, all_targets, batches, bi, gi, entries,
                 all_errors, done_files, remaining, submitted>>

\* One iteration of "for table_name, items in bucket.items()".
MergeGroup(copy_ok, env) ==
  /\ pc = "merge"
  /\ env \in [1..Len(bucket[gi + 1].items) -> StmtEnv]
  /\ \E g \in {bucket[gi + 1]} :
     \E tbl \in {ensure_store_table(db[g.table_name], g.items[1].store)} :
     \E cp \in {CopyPath(tbl, g.items, copy_ok, env)} :
     \E sp \in {SafePath(tbl, g.items, env)} :
        /\ IF cfg.use_copy
           THEN /\ db' = [db EXCEPT ![g.table_name] = cp.t]
                /\ errors' = errors \o cp.errs
                /\ entries' = entries \o [i \in 1..Len(g.items) |->
                                             [file_id |-> g.items[i].file_id,
                                              entry |-> LogEntry(g.items[i])]]
                /\ gi' = gi + 1
                /\ pc' = IF gi + 1 = Len(bucket) THEN "commit" ELSE "merge"
           ELSE /\ copy_ok
                /\ db' = [db EXCEPT ![g.table_name] = sp.t]
                /\ errors' = errors
                /\ IF sp.raised
                   THEN /\ pc' = "crashed"
                        /\ UNCHANGED <<entries, gi>>
                   ELSE /\ entries' = entries \o [i \in 1..Len(g.items) |->
                                                     [file_id |-> g.items[i].file_id,
                                                      entry |-> LogEntry(g.items[i])]]
                        /\ gi' = gi + 1
                        /\ pc' = IF gi + 1 = Len(bucket) THEN "commit" ELSE "merge"
  /\ UNCHANGED <<aux, remote, cache, ledger, cfg, all_targets, batches, bi, futures, bucket,
                 all_errors, done_files, remaining, submitted>>

\* upsert_import_log that empties import_log before it inserts: the log
\* holds the entries of the last batch only.
upsert_import_log_Replace(log, es) ==
  [f \in {es[i].file_id : i \in 1..Len(es)} |->
     es[CHOOSE i \in 1..Len(es) : es[i].file_id = f].entry]

\* upsert_import_log with ON CONFLICT DO NOTHING: an existing entry keeps
\* its old checksum.
upsert_import_log_DoNothing(log, es) ==
  [f \in DOMAIN log \cup {es[i].file_id : i \in 1..Len(es)} |->
     IF f \in DOMAIN log THEN log[f]
     ELSE es[CHOOSE i \in 1..Len(es) : es[i].file_id = f].entry]

\* upsert_import_log: INSERT .. ON CONFLICT (file_id) DO UPDATE.
upsert_import_log(log, es) ==
  [f \in DOMAIN log \cup {es[i].file_id : i \in 1..Len(es)} |->
     IF \E i \in 1..Len(es) : es[i].file_id = f
     THEN es[CHOOSE i \in 1..Len(es) : es[i].file_id = f].entry
     ELSE log[f]]

\* The end of one loop iteration of the handler: ledger commit, totals,
\* then the next batch or the final messages.
CommitLedger ==
  /\ pc = "commit"
  /\ ledger' = upsert_import_log(ledger, entries)
  /\ all_errors' = all_errors \o errors
  /\ done_files' = done_files + SumLen([i \in 1..Len(bucket) |-> bucket[i].items])
  /\ bucket' = <<>> /\ gi' = 0 /\ errors' = <<>> /\ entries' = <<>>
  /\ IF bi < Len(LoopBatches(batches, cfg))
     THEN /\ bi' = bi + 1
          /\ futures' = LoopBatches(batches, cfg)[bi + 1]
          /\ submitted' = submitted + Len(LoopBatches(batches, cfg)[bi + 1])
          /\ pc' = "fetch"
          /\ UNCHANGED remaining
     ELSE /\ pc' = "done"
          /\ remaining' = IF Len(batches) > cfg.max_batches /\ cfg.auto_batch
                          THEN SumLen(SubSeq(batches, cfg.max_batches + 1, Len(batches)))
                          ELSE -1
          /\ UNCHANGED <<bi, futures, submitted>>
  /\ UNCHANGED <<aux, remote, cache, db, cfg, all_targets, batches>>

\* The script run is over; the next rerun starts from fresh locals and the
\* widgets hold c.
EndRun(c) ==
  /\ pc \in {"done", "crashed"}
  /\ pc' = "idle"
  /\ cfg' = c
  /\ all_targets' = <<>> /\ batches' = <<>> /\ bi' = 0 /\ futures' = <<>>
  /\ bucket' = <<>> /\ gi' = 0 /\ errors' = <<>> /\ entries' = <<>>
  /\ all_errors' = <<>> /\ done_files' = 0 /\ remaining' = -1 /\ submitted' = 0
  /\ UNCHANGED <<aux, remote, cache, db, ledger>>

Next ==
  \/ \E f \in FileIds : RemoteChange(f)
  \/ ServerRestart
  \/ \E c \in Configs : StartImport(c)
  \/ \E k \in 1..NumFiles : TaskDone(k)
  \/ \E copy_ok \in BOOLEAN, env \in UNION {[1..n -> StmtEnv] : n \in 1..NumFiles} :
        MergeGroup(copy_ok, env)
  \/ CommitLedger
  \/ EndRun(IdleCfg)

Spec == Init /\ [][Next]_vars

(***************************************************************************)
(* Repeated invocations with fixed widgets against a tree that does not    *)
(* change, the store never failing a statement for a reason of its own:    *)
(* every step that can be taken is eventually taken.                       *)
(***************************************************************************)
LiveInit ==
  /\ remote \in {r \in [FileIds -> 0..(MaxHash + 1)] :
                   \A f \in FileIds : (IF f = 3 THEN 0 ELSE 1) <= r[f] /\ r[f] <= MaxRev(f)}
  /\ cache = NoCache
  /\ db = [t \in Tables |-> NoTable]
  /\ ledger = <<>>
  /\ pc = "idle"
  /\ cfg \in Configs
  /\ Transient
  /\ AuxIdle

AllOk(n) == [i \in 1..n |-> "ok"]

LiveNext ==
  \/ StartImport(cfg)
  \/ \E k \in 1..NumFiles : TaskDone(k)
  \/ \E n \in 1..NumFiles : MergeGroup(TRUE, AllOk(n))
  \/ CommitLedger
  \/ EndRun(cfg)

\* Each step of the handler runs when it can, and the operator presses the
\* button again after every invocation.
LiveSpec ==
  /\ LiveInit
  /\ [][LiveNext]_vars
  /\ WF_vars(StartImport(cfg))
  /\ WF_vars(\E k \in 1..NumFiles : TaskDone(k))
  /\ WF_vars(\E n \in 1..NumFiles : MergeGroup(TRUE, AllOk(n)))
  /\ WF_vars(CommitLedger)
  /\ WF_vars(EndRun(cfg))

(***************************************************************************)
(* The pure functions called on their own, on every argument of a bounded  *)
(* set.  The handler and the stores stay as they are constructed.          *)
(***************************************************************************)
PathTokens == {"/", "w", "2024-03-05", "2024-02-30"}

Paths == UNION {[1..n -> PathTokens] : n \in 0..MaxPathLen}

ParseCalls == {[fn |-> "parse_meta", v |-> path, store |-> ""] : path \in Paths}

\* What a ratio column of a raw table may hold: nothing, text, plain
\* integers and decimals, "a/b" with an integer b, "1/x" with a decimal or
\* an unparsable x.
ProbCells ==
  {Null, TextV("x"), IntV(-5), IntV(0), IntV(1), IntV(113),
   FloatV(-1, 2), FloatV(1, 2), FloatV(3, 2),
   FracV(1, -5), FracV(1, 0), FracV(1, 1), FracV(1, 113),
   FracD(1, 2), FracD(3, 2), FracT("x")}

SlotCells == {IntV(7), TextV("x")}

RatioRows == {RawRowNoBB(sl, p) : sl \in SlotCells, p \in ProbCells}

\* The raw tables of a slot column and a ratio column.
RatioTables == UNION {[1..n -> RatioRows] : n \in 0..MaxRows}

\* Raw tables with both spellings of a column, with a column COLUMN_MAP
\* does not name, and with a fractional number in an integer column.
OddTables ==
  {<<[slot |-> IntV(7), BB |-> IntV(3), BBold |-> IntV(4), BBp |-> IntV(113)]>>,
   <<RawRowB(IntV(7), FracD(1, 2), TextV("x"))>>,
   <<RawRow(IntV(7), FloatV(7, 2), IntV(113))>>,
   <<RawRow(IntV(7), FloatV(4, 2), IntV(113))>>}

NormCalls ==
  {[fn |-> "normalize", v |-> t, store |-> "StoreA"] : t \in RatioTables \cup OddTables}

FnInit ==
  /\ remote = [f \in FileIds |-> IF f = 3 THEN 0 ELSE 1]
  /\ cache = NoCache
  /\ db = [t \in Tables |-> NoTable]
  /\ ledger = <<>>
  /\ pc = "idle"
  /\ cfg = IdleCfg
  /\ Transient
  /\ (inp \in ParseCalls \/ inp \in NormCalls)
  /\ out = NoResult
  /\ scan = NoScan

\* meta = parse_meta(path)
CallParseMeta ==
  /\ inp.fn = "parse_meta" /\ out.pass = 0
  /\ out' = [pass |-> 1, v |-> parse_meta(inp.v)]
  /\ UNCHANGED <<app_vars, inp, scan>>

\* df = normalize(df_raw, store)
CallNormalize ==
  /\ inp.fn = "normalize" /\ out.pass = 0
  /\ out' = [pass |-> 1, v |-> normalize(inp.v, inp.store)]
  /\ UNCHANGED <<app_vars, inp, scan>>

\* normalize(df, store) on the frame the first call returned
CallNormalizeAgain ==
  /\ inp.fn = "normalize" /\ out.pass = 1 /\ out.v.kind = "ok"
  /\ out' = [pass |-> 2, v |-> normalize(out.v.rows, inp.store)]
  /\ UNCHANGED <<app_vars, inp, scan>>

FnNext ==
  \/ CallParseMeta
  \/ CallNormalize
  \/ CallNormalizeAgain

FnSpec == FnInit /\ [][FnNext]_vars

(***************************************************************************)
(* list_csv_recursive run on a folder tree of its own, one request to the  *)
(* remote store per step.  Node 0 is the root folder; node i > 0 has the   *)
(* parent par[i] < i, a folder, the name "n<i>" with the extension its     *)
(* kind gives, and may be in the trash.                                    *)
(***************************************************************************)
Kinds == {"folder", ".csv", ".CSV", ".txt"}

\* The parent functions, the kinds and the trash of a tree of n nodes: at
\* most one node is in the trash.
Parents(n) == {q \in [1..n -> 0..(n - 1)] : \A i \in 1..n : q[i] < i}
KindsOf(n) == [1..n -> Kinds]
Trash(n) == {{}} \cup {{i} : i \in 1..n}

\* A file is in a folder.
WellFormed(tr) == \A i \in 1..tr.n : tr.par[i] = 0 \/ tr.kind[tr.par[i]] = "folder"

\* f["name"] and f["mimeType"] of node i.
NodeName(tr, i) ==
  IF tr.kind[i] = "folder" THEN <<"n" \o ToString(i)>> ELSE <<"n" \o ToString(i), tr.kind[i]>>
IsFolder(tr, i) == tr.kind[i] = "folder"

\* str.lower() on a name.
lower(name) == [i \in 1..Len(name) |-> IF name[i] = ".CSV" THEN ".csv" ELSE name[i]]

\* str.endswith(".csv")
endswith_csv(name) == Len(name) > 0 /\ name[Len(name)] = ".csv"

\* The test of the elif branch without lower().
IsCsvName_CaseSensitive(name) == endswith_csv(name)

\* f["name"].lower().endswith(".csv")
IsCsvName(name) == endswith_csv(lower(name))

\* The files "'fid' in parents and trashed=false" selects, in the order the
\* store lists them.
Children(tr, fid) ==
  SelectSeq([i \in 1..tr.n |-> i], LAMBDA i : tr.par[i] = fid /\ i \notin tr.trashed)

\* The loop "for f in res.get('files', [])" over one page: the folders go on
\* the queue, the CSV files on the result.
RECURSIVE ForFiles(_, _, _, _)
ForFiles(tr, page, cur, acc) ==
  IF Len(page) = 0 THEN acc
  ELSE LET f == Head(page)
           path == cur \o <<"/">> \o NodeName(tr, f)
           acc2 == IF IsFolder(tr, f)
                   THEN [acc EXCEPT !.queue = Append(@, [fid |-> f, path |-> path])]
                   ELSE IF IsCsvName(NodeName(tr, f))
                   THEN [acc EXCEPT !.all_files = Append(@, [id |-> f, path |-> path])]
                   ELSE acc
       IN ForFiles(tr, Tail(page), cur, acc2)

ScanInit ==
  /\ remote = [f \in FileIds |-> IF f = 3 THEN 0 ELSE 1]
  /\ cache = NoCache
  /\ db = [t \in Tables |-> NoTable]
  /\ ledger = <<>>
  /\ pc = "idle"
  /\ cfg = IdleCfg
  /\ Transient
  /\ inp = NoCall
  /\ out = NoResult
  /\ \E n \in 0..MaxNodes : \E p \in Parents(n) : \E k \in KindsOf(n) : \E t \in Trash(n) :
     \E tr \in {x \in {[n |-> n, par |-> p, kind |-> k, trashed |-> t]} : WellFormed(x)} :
       scan = [running |-> TRUE, tree |-> tr, pos |-> "pop",
               queue |-> <<[fid |-> 0, path |-> <<>>]>>,
               fid |-> 0, cur |-> <<>>, page_token |-> 0,
               all_files |-> <<>>, calls |-> <<>>]

\* fid, cur = queue.pop(); page_token = None
ScanPop ==
  /\ scan.pos = "pop" /\ Len(scan.queue) > 0
  /\ scan' = [scan EXCEPT !.queue = SubSeq(@, 1, Len(@) - 1),
                          !.fid = scan.queue[Len(scan.queue)].fid,
                          !.cur = scan.queue[Len(scan.queue)].path,
                          !.page_token = 0,
                          !.pos = "list"]
  /\ UNCHANGED <<app_vars, inp, out>>

\* One request files().list(pageToken=page_token) and the loop over its
\* page.  The store answers with the next len files of the folder and with
\* a nextPageToken while files remain.
ScanList(len) ==
  /\ scan.pos = "list"
  /\ len \in 1..PageSize
  /\ \E kids \in {Children(scan.tree, scan.fid)} :
     \E page \in {SubSeq(kids, scan.page_token + 1, Min(Len(kids), scan.page_token + len))} :
     \E next \in {IF scan.page_token + len < Len(kids) THEN scan.page_token + len ELSE 0} :
     \E acc \in {ForFiles(scan.tree, page, scan.cur,
                          [queue |-> scan.queue, all_files |-> scan.all_files])} :
       scan' = [scan EXCEPT !.queue = acc.queue,
                            !.all_files = acc.all_files,
                            !.calls = Append(@, [fid |-> scan.fid, token |-> scan.page_token,
                                                 next |-> next]),
                            !.page_token = next,
                            !.pos = IF next = 0 THEN "pop" ELSE "list"]
  /\ UNCHANGED <<app_vars, inp, out>>

\* return all_files
ScanReturn ==
  /\ scan.pos = "pop" /\ Len(scan.queue) = 0
  /\ scan' = [scan EXCEPT !.running = FALSE, !.pos = "done"]
  /\ UNCHANGED <<app_vars, inp, out>>

ScanNext ==
  \/ ScanPop
  \/ \E len \in 1..PageSize : ScanList(len)
  \/ ScanReturn

\* The interpreter runs the function on: a step that can be taken is taken.
ScanSpec == ScanInit /\ [][ScanNext]_vars /\ WF_vars(ScanNext)

(***************************************************************************)
(* The same scan against a store that may fail a request.  execute() is    *)
(* called without num_retries and list_csv_recursive has no try block: the *)
(* exception leaves the function, its locals go with its frame, and the    *)
(* handler's except branch reports it and stops the script run.            *)
(***************************************************************************)
\* files().list(...).execute() raises.
ScanRaise ==
  /\ scan.pos = "list"
  /\ scan' = [scan EXCEPT !.running = FALSE, !.pos = "raised",
                          !.queue = <<>>, !.all_files = <<>>]
  /\ UNCHANGED <<app_vars, inp, out>>

ScanErrNext ==
  \/ ScanPop
  \/ \E len \in 1..PageSize : ScanList(len)
  \/ ScanReturn
  \/ ScanRaise

ScanErrSpec == ScanInit /\ [][ScanErrNext]_vars

(***************************************************************************)
(* The standalone data manager: src.db.upsert into slot_data, applied to   *)
(* the frames of successive imports.  A row of slot_data has the key       *)
(* columns store, machine, date, slot and the non-key column BB, a count   *)
(* in 0..MaxCount.                                                         *)
(***************************************************************************)
\* PRIMARY KEY (store, machine, date, slot) of slot_data.
SlotDataKey(r) == <<r.store, r.machine, r.date, r.slot>>

\* upsert: one INSERT OR IGNORE per record of the frame, in the order of
\* the frame; a record whose key is in the table is skipped.
upsert(slot_data, df) ==
  slot_data
    \cup {df[i] : i \in {k \in 1..Len(df) :
                           /\ \A r \in slot_data : SlotDataKey(r) # SlotDataKey(df[k])
                           /\ \A j \in 1..(k - 1) : SlotDataKey(df[j]) # SlotDataKey(df[k])}}

\* The normalized frame of one file: store, machine and date of the file on
\* every row, one row per slot.
DmFrames ==
  {[i \in 1..Len(body) |->
      [store |-> "StoreA", machine |-> "MachineX", date |-> d,
       slot |-> body[i].slot, BB |-> body[i].BB]] :
     d \in {20240101, 20240102},
     body \in {b \in UNION {[1..n -> [slot : 1..MaxRows, BB : 0..MaxCount]] : n \in 1..MaxRows} :
                 \A i, j \in 1..Len(b) : b[i].slot = b[j].slot => i = j}}

\* Two imports, one after the other, into the empty table.
DmInit ==
  /\ remote = [f \in FileIds |-> IF f = 3 THEN 0 ELSE 1]
  /\ cache = NoCache
  /\ db = [t \in Tables |-> NoTable]
  /\ ledger = <<>>
  /\ pc = "idle"
  /\ cfg = IdleCfg
  /\ Transient
  /\ \E df1 \in DmFrames : \E df2 \in DmFrames :
       inp = [fn |-> "upsert", v |-> <<df1, df2>>, store |-> "StoreA"]
  /\ out = [pass |-> 0, v |-> {}]
  /\ scan = NoScan

\* upsert(df_norm) for the next frame.
CallUpsert ==
  /\ inp.fn = "upsert" /\ out.pass < Len(inp.v)
  /\ out' = [pass |-> out.pass + 1, v |-> upsert(out.v, inp.v[out.pass + 1])]
  /\ UNCHANGED <<app_vars, inp, scan>>

DmNext == CallUpsert

DmSpec == DmInit /\ [][DmNext]_vars

(***************************************************************************)
(* Properties.                                                             *)
(***************************************************************************)
\* The file_meta the listing holds for file f at revision v.
FileMeta(f, v) == [id |-> f, md5 |-> Md5Checksum(v), path |-> FilePath(f)]

\* f.get("md5Checksum") or "" for revision v.
Md5OrEmpty(v) == IF v = 0 THEN "" ELSE Md5Checksum(v)

\* The revision whose checksum the ledger column md5 holds.
RevOfMd5(m) == CHOOSE v \in 0..(MaxHash + 1) : Md5OrEmpty(v) = m

\* The handler has just been started by this step.
Started == pc = "idle" /\ pc' # "idle"

IdsOf(seq) == {seq[i].id : i \in 1..Len(seq)}

\* C1 (as claimed): whenever import_log stores hash h for file f, every row of
\* the revision of f with hash h is in the destination table of f's store.
C1_LedgerOnlyAfterMerge ==
  \A f \in DOMAIN ledger :
    LET res == process_one_file(FileMeta(f, RevOfMd5(ledger[f].md5)), RevOfMd5(ledger[f].md5))
    IN \A i \in 1..Len(res.df) :
         /\ ~HasNullKey(<<res.df[i]>>)
         /\ PK(res.df[i]) \in Keys(db[res.table_name].rows)

\* C5 (as claimed): the delta set the handler computes is exactly the set of
\* candidates (listed files inside the date range) that have no import_log
\* entry or whose listed checksum differs from the stored one.
C5_DiffExact ==
  [][Started =>
       IdsOf(all_targets') =
         {f \in FileIds :
            /\ InRange(cache'.files[f], cfg'.range)
            /\ \/ f \notin DOMAIN ledger
               \/ ledger[f].md5 # cache'.files[f].md5}]_vars

\* The table group the next MergeGroup step writes, its table after
\* ensure_store_table, and its frames after the fast path filled them.
GroupNow == bucket[gi + 1]
TableNow == ensure_store_table(db[GroupNow.table_name], GroupNow.items[1].store)
FilledNow ==
  [i \in 1..Len(GroupNow.items) |->
     [GroupNow.items[i] EXCEPT !.df = FillMissing(GroupNow.items[i].df, TableNow.cols)]]
FrameNow == ConcatDfs([i \in 1..Len(FilledNow) |-> SelectCols(FilledNow[i].df, TableNow.cols)])

C3_ChangedHashSeen ==
  [][Started =>
       \A f \in DOMAIN ledger :
         (ledger[f].md5 # Md5OrEmpty(remote[f]) /\ InRange(FileMeta(f, 0), cfg'.range)) =>
           \E i \in 1..Len(all_targets') :
             all_targets'[i].id = f /\ all_targets'[i].md5 = Md5Checksum(remote[f])]_vars

\* The invocation ran every batch of its delta set to the end.
RanWholeDelta == pc = "done" /\ submitted = Len(all_targets)

\* C4 (as claimed): after an invocation that processed its whole delta set,
\* the ledger diff excludes every file of that delta set.
C4_SecondDeltaEmpty ==
  RanWholeDelta => \A i \in 1..Len(all_targets) : ~IsTarget(all_targets[i])

\* C4 (amended): after an invocation that processed its whole delta set, the
\* ledger diff excludes every file of that delta set that process_one_file
\* turned into a frame; the files it still selects are those that were skipped
\* (unmapped store, empty frame) or raised.
C4_SecondDeltaOnlySkipped ==
  RanWholeDelta =>
    \A i \in 1..Len(all_targets) :
      IsTarget(all_targets[i]) <=>
        process_one_file_kind(all_targets[i], remote[all_targets[i].id]) # "ok"

\* C4 witness: an invocation has processed a delta set of two files, both
\* are committed and the diff selects neither any more.
C4_Witness ==
  /\ RanWholeDelta /\ Len(all_targets) = 2
  /\ \A i \in 1..Len(all_targets) :
       all_targets[i].id \in DOMAIN ledger /\ ~IsTarget(all_targets[i])

\* C6: no step removes a row key from a destination table, drops a table or
\* removes a file id from import_log.
C6_NothingLost ==
  [][/\ \A t \in Tables :
          /\ db[t].exists => db'[t].exists
          /\ Keys(db[t].rows) \subseteq Keys(db'[t].rows)
     /\ DOMAIN ledger \subseteq DOMAIN ledger']_vars

\* C6 witness: the second batch of an invocation has aborted while the rows
\* and the ledger entry the first batch committed are in place.
C6_Witness ==
  /\ pc = "crashed" /\ bi = 2
  /\ \E f \in DOMAIN ledger : f \in IdsOf(batches[1])
  /\ \E t \in Tables : db[t].rows # {}

\* File f, as the remote tree holds it, can be fetched, normalized and merged
\* without error, and lies inside the date range of the widgets.
Importable(f) ==
  LET fm == FileMeta(f, remote[f])
  IN /\ InRange(fm, cfg.range)
     /\ process_one_file_kind(fm, remote[f]) = "ok"
     /\ ~Rejected(process_one_file(fm, remote[f]).df)

\* C7 (as claimed): under repeated invocations with fixed widgets against an
\* unchanged tree, every file that can be fetched, normalized and merged
\* without error is eventually committed to import_log, whatever happens to
\* the other files of the delta set.  The tree and the widgets do not change
\* and import_log never loses a row, so this is: eventually every importable
\* file is in import_log.
C7_EventuallyCommitted ==
  <>(\A f \in FileIds : Importable(f) => f \in DOMAIN ledger)

CeilDiv(a, b) == (a + b - 1) \div b

\* The invocation had a delta set and ran to its final messages.
Finished == pc = "done" /\ Len(all_targets) > 0

\* C8 (as claimed): M delta files and max_files F give ceil(M/F) batches; with
\* max_batches K < ceil(M/F) exactly K batches are executed and ceil(M/F) - K
\* are reported as pending; otherwise all batches are executed.
C8_BatchCounts ==
  Finished =>
    LET n == CeilDiv(Len(all_targets), cfg.max_files)
    IN /\ cfg.max_batches < n => (bi = cfg.max_batches /\ remaining = n - cfg.max_batches)
       /\ cfg.max_batches >= n => bi = n

\* C8 (amended): with auto_batch set, M delta files and max_files F give
\* ceil(M/F) batches; with max_batches K < ceil(M/F) exactly K batches are
\* executed and the M - K*F files of the other batches are reported as
\* remaining; with K >= ceil(M/F) all batches are executed and nothing is
\* reported.  With auto_batch unset only the first batch, of min(F, M) files,
\* is executed and nothing is reported.
C8_BatchCountsAuto ==
  Finished =>
    LET M == Len(all_targets)
        F == cfg.max_files
        K == cfg.max_batches
        n == CeilDiv(M, F)
    IN IF cfg.auto_batch
       THEN /\ Len(batches) = n
            /\ K < n => (bi = K /\ submitted = K * F /\ remaining = M - K * F)
            /\ K >= n => (bi = n /\ submitted = M /\ remaining = -1)
       ELSE /\ Len(batches) = 1
            /\ bi = 1 /\ submitted = Min(F, M) /\ remaining = -1

\* C8 witness: an invocation with auto_batch set has stopped after
\* max_batches batches and reports the files of the batches it left.
C8_Witness ==
  /\ Finished /\ cfg.auto_batch
  /\ cfg.max_batches < Len(batches) /\ bi = cfg.max_batches
  /\ remaining >= 1

\* C9: the number of files handed to the pool in one invocation is at most
\* max_files * max_batches.
C9_BlastRadius == submitted <= cfg.max_files * cfg.max_batches

\* C9 witness: an invocation has handed max_files * max_batches files to
\* the pool out of a larger delta set.
C9_Witness ==
  /\ pc = "done"
  /\ submitted = cfg.max_files * cfg.max_batches
  /\ Len(all_targets) > submitted

\* The pool of the current batch has been joined and no group written yet.
FetchJoined == (pc = "merge" /\ gi = 0) \/ (pc = "commit" /\ Len(bucket) = 0)
BatchNow == LoopBatches(batches, cfg)[bi]
InBucket(f) ==
  \E i \in 1..Len(bucket) : \E j \in 1..Len(bucket[i].items) : bucket[i].items[j].file_id = f
InErrors(path) == \E i \in 1..Len(errors) : errors[i] = ErrFile(path)

\* The task of fm raises (unparsable path, or a mapped store whose download
\* or CSV parse raises); the store of fm has no COLUMN_MAP entry.
TaskRaises(fm) ==
  \/ ~meta_of(fm).ok
  \/ /\ meta_of(fm).store \in Stores
     /\ RawCsv(fm.id, remote[fm.id]).kind = "raise"
TaskUnmapped(fm) == meta_of(fm).ok /\ meta_of(fm).store \notin Stores
TaskEmpty(fm) ==
  /\ ~TaskRaises(fm) /\ ~TaskUnmapped(fm)
  /\ Len(RawCsv(fm.id, remote[fm.id]).rows) = 0

C11_ErrorsNeverAbort == pc # "crashed"

\* The outcomes env of the statements of the fallback that account for the
\* step: the error list and the table the step leaves are those the fallback
\* computes under env.
FallbackRanWith(env) ==
  /\ pc = "merge" /\ cfg.use_copy
  /\ errors' = errors \o <<ErrCopy(GroupNow.table_name)>>
                      \o Fallback(TableNow, FilledNow, env).errs
  /\ db'[GroupNow.table_name] = Fallback(TableNow, FilledNow, env).t

\* The statement of file i of the group fails on its own: the driver or the
\* server refuses it, or its rows break a constraint of the table.
OwnFailure(i, env) ==
  env[i] # "ok" \/ Rejected(SelectCols(FilledNow[i].df, TableNow.cols))

\* C12 (as claimed): when the fallback runs, a file whose statement fails is
\* recorded as an error, and the rows of every other file of the group are in
\* the destination table when the fallback finishes.
C12_FallbackContinues ==
  [][(pc = "merge" /\ cfg.use_copy) =>
     \A env \in [1..Len(FilledNow) -> StmtEnv] :
       FallbackRanWith(env) =>
         \A i \in 1..Len(FilledNow) :
           IF OwnFailure(i, env)
           THEN \E k \in 1..Len(errors') : errors'[k] = ErrUpsert(FilledNow[i].path)
           ELSE \A j \in 1..Len(FilledNow[i].df) :
                  SelectCols(FilledNow[i].df, TableNow.cols)[j] \in db'[GroupNow.table_name].rows]_vars

\* The step merges every file of the group it writes: it does not abort and
\* adds no per-file merge error.
MergedAll ==
  /\ pc = "merge" /\ pc' # "crashed"
  /\ \A k \in (Len(errors) + 1)..Len(errors') : errors'[k].kind # "upsert"

\* The rows handed to the merge of the group, in statement order.
IncomingNow ==
  ConcatDfs([i \in 1..Len(GroupNow.items) |->
               SelectCols(GroupNow.items[i].df, TableNow.cols)])

\* C13: a merge is insert-or-overwrite with last-writer-wins on the whole
\* row.  After a step that merges a group, for every primary key among the
\* incoming rows the table holds exactly one row, whose every non-key column
\* is the value of the last incoming row with that key, null where that row
\* has no such column; the rows with any other key are as they were.
C13_LastWriterWins ==
  [][MergedAll =>
       LET t2 == db'[GroupNow.table_name]
           newKeys == {PK(IncomingNow[i]) : i \in 1..Len(IncomingNow)}
       IN /\ \A i \in 1..Len(IncomingNow) :
               (\A j \in (i + 1)..Len(IncomingNow) : PK(IncomingNow[j]) # PK(IncomingNow[i])) =>
                 /\ Cardinality({x \in t2.rows : PK(x) = PK(IncomingNow[i])}) = 1
                 /\ \A x \in t2.rows :
                      PK(x) = PK(IncomingNow[i]) =>
                        \A c \in t2.cols \ pk :
                          x[c] = IF c \in DOMAIN IncomingNow[i] THEN IncomingNow[i][c] ELSE Null
          /\ {x \in t2.rows : PK(x) \notin newKeys} =
               {x \in TableNow.rows : PK(x) \notin newKeys}]_vars

\* C13 witness: without the fast path, the second revision of file 1, which
\* has no BB column, has overwritten the row its first revision had merged:
\* the new ratio is in place and BB is null.
C13_Witness ==
  /\ pc = "commit" /\ ~cfg.use_copy
  /\ 1 \in DOMAIN ledger /\ ledger[1].md5 = "h1"
  /\ \E i \in 1..Len(entries) : entries[i].file_id = 1 /\ entries[i].entry.md5 = "h2"
  /\ \E r \in db["slot_StoreA"].rows :
       r["slot"] = IntV(7) /\ r["BBp"] = FloatV(1, 100) /\ r["BB"] = Null

\* C14: the fast path is all-or-nothing.  For the group about to be merged,
\* whichever of its four statements fails (and when the bulk load is
\* rejected for its rows), the transaction leaves the destination table
\* exactly as it was; no staging table is left, after a failure or after a
\* success.
C14_FastPathAtomic ==
  (pc = "merge" /\ cfg.use_copy) =>
    LET cols == ColumnsOf(FrameNow) \cap TableNow.cols
        df_use == SelectCols(FrameNow, cols)
    IN \A fail \in {"none"} \cup {FastStmts[k] : k \in 1..Len(FastStmts)} :
         LET r == FastTxn(TableNow, df_use, cols, fail)
         IN /\ r.tmp = NoStaging
            /\ fail # "none" => ~r.ok
            /\ ~r.ok => r.t = TableNow
            /\ r.ok => r.t = bulk_upsert_copy_merge(TableNow, FrameNow, TRUE).t

\* C14 witness: the fast path is about to merge a group into a table that
\* holds rows of an earlier invocation.
C14_Witness ==
  /\ pc = "merge" /\ cfg.use_copy /\ gi = 0
  /\ TableNow.rows # {}
  /\ \E i \in 1..Len(FrameNow) : PK(FrameNow[i]) \in Keys(TableNow.rows)


(***************************************************************************)
(* parse_meta.                                                             *)
(***************************************************************************)
\* The segments of a path: the pieces between its "/" characters, from the
\* left.
RECURSIVE Segments(_)
Segments(path) ==
  IF \A i \in 1..Len(path) : path[i] # "/" THEN <<path>>
  ELSE LET i == CHOOSE k \in 1..Len(path) : path[k] = "/" /\ \A j \in 1..(k - 1) : path[j] # "/"
       IN <<SubSeq(path, 1, i - 1)>> \o Segments(SubSeq(path, i + 1, Len(path)))

\* A path without the "/" characters at its two ends.
RECURSIVE Trimmed(_)
Trimmed(path) ==
  IF path = <<>> THEN path
  ELSE IF Head(path) = "/" THEN Trimmed(Tail(path))
  ELSE IF path[Len(path)] = "/" THEN Trimmed(SubSeq(path, 1, Len(path) - 1))
  ELSE path

\* The YYYY-MM-DD tokens of a segment, from the left.
DatesIn(seg) == SelectSeq(seg, LAMBDA tok : tok \in DateTokens)

\* The result the contract gives for a path of these segments when every
\* YYYY-MM-DD token is taken for a date.
ParsedAsClaimed(segs) ==
  IF Len(segs) < 3 THEN ParseError("too_short")
  ELSE IF DatesIn(segs[Len(segs)]) = <<>> THEN ParseError("no_date")
  ELSE [ok |-> TRUE, err |-> "", store |-> Join(segs[Len(segs) - 2]),
        machine |-> Join(segs[Len(segs) - 1]),
        date |-> fromisoformat(DatesIn(segs[Len(segs)])[1])]

\* The same, a first token that is no calendar date being a failure of its
\* own.
ParsedOrBadDate(segs) ==
  IF Len(segs) >= 3 /\ DatesIn(segs[Len(segs)]) # <<>>
     /\ fromisoformat(DatesIn(segs[Len(segs)])[1]) = 0
  THEN ParseError("bad_date")
  ELSE ParsedAsClaimed(segs)

\* C15 as stated: parse splits the path on "/" as it is given; with three or
\* more segments and a YYYY-MM-DD token in the last one it returns
\* (third-from-last, second-from-last, that date), with fewer segments it
\* fails too_short, without a token it fails no_date.
C15_ParseAsClaimed ==
  (inp.fn = "parse_meta" /\ out.pass = 1) => out.v = ParsedAsClaimed(Segments(inp.v))

\* C15 amended: the "/" characters at the two ends of the path are removed
\* before it is split, and a first YYYY-MM-DD token that is no calendar date
\* makes the call fail with the date constructor's error; otherwise as
\* stated, and a failure never carries a store, a machine or a date.
C15_ParseStripped ==
  (inp.fn = "parse_meta" /\ out.pass = 1) =>
    /\ out.v = ParsedOrBadDate(Segments(Trimmed(inp.v)))
    /\ out.v.ok => out.v.date # 0 /\ out.v.err = ""
    /\ ~out.v.ok => out.v.err \in {"too_short", "no_date", "bad_date"}

\* parse_meta has answered a path that starts with "/", has three segments
\* after it and two date tokens in the last one.
C15_Witness ==
  /\ inp.fn = "parse_meta" /\ out.pass = 1
  /\ inp.v = <<"/", "w", "/", "w", "/", "2024-03-05">>
  /\ out.v = [ok |-> TRUE, err |-> "", store |-> "w", machine |-> "w", date |-> 20240305]

(***************************************************************************)
(* normalize.                                                              *)
(***************************************************************************)
\* Cell c is the text "1/N" and cell e the plain number N.
SameN(c, e) ==
  \/ c.k = "frac" /\ c.n = 1 /\ e.k = "int" /\ e.n = c.d
  \/ c.k = "fracd" /\ e.k = "float" /\ e.n = c.n /\ e.d = c.d

\* normalize has returned a frame for a table of a slot and a ratio column.
Normalized == inp.fn = "normalize" /\ out.pass = 1 /\ out.v.kind = "ok"

\* C16 as stated: for every N > 0, the ratio cell "1/N" and the ratio cell N
\* of a table come out of normalize as the same value.
C16_SlashEqualsPlain ==
  (Normalized /\ inp.v \in RatioTables) =>
    \A i, j \in 1..Len(inp.v) :
      (SameN(inp.v[i]["BBp"], inp.v[j]["BBp"]) /\ inp.v[j]["BBp"].n > 0)
        => out.v.rows[i]["BBp"] = out.v.rows[j]["BBp"]

\* C16 amended: for every N >= 1, the ratio cell "1/N" and the ratio cell N
\* of a table come out of normalize as the same value, 1/N.
C16_SlashEqualsPlainFromOne ==
  (Normalized /\ inp.v \in RatioTables) =>
    \A i, j \in 1..Len(inp.v) :
      (SameN(inp.v[i]["BBp"], inp.v[j]["BBp"]) /\ inp.v[j]["BBp"].n >= inp.v[j]["BBp"].d)
        => /\ out.v.rows[i]["BBp"] = out.v.rows[j]["BBp"]
           /\ out.v.rows[i]["BBp"] = FloatV(inp.v[j]["BBp"].d, inp.v[j]["BBp"].n)

\* normalize has returned 1/113 for "1/113" and for 113 in one table.
C16_Witness ==
  /\ Normalized
  /\ inp.v = <<RawRowNoBB(IntV(7), FracV(1, 113)), RawRowNoBB(IntV(7), IntV(113))>>
  /\ out.v.rows[1]["BBp"] = FloatV(1, 113) /\ out.v.rows[2]["BBp"] = FloatV(1, 113)

\* A ratio cell the contract sends to 0: a "/" cell whose denominator is
\* <= 0 or no number, a plain number <= 0, text that is no number, nothing.
ZeroInput(c) ==
  \/ c.k = "frac" /\ c.d <= 0
  \/ c.k = "fracd" /\ c.n <= 0
  \/ c.k = "fract"
  \/ c.k \in {"int", "float"} /\ c.n <= 0
  \/ c.k \in {"text", "null"}

\* C17: normalize does not raise on a table of ratio cells, gives exactly 0
\* for every cell whose denominator or plain value is <= 0 and for every
\* unparsable or missing cell, and gives no negative value.
C17_ZeroNeverNegative ==
  (inp.fn = "normalize" /\ out.pass = 1 /\ inp.v \in RatioTables) =>
    /\ out.v.kind = "ok"
    /\ \A i \in 1..Len(inp.v) :
         /\ out.v.rows[i]["BBp"].n >= 0
         /\ ZeroInput(inp.v[i]["BBp"]) => out.v.rows[i]["BBp"] = FloatV(0, 1)

\* C18: normalizing the frame normalize returned gives that frame again.
C18_Idempotent ==
  (inp.fn = "normalize" /\ out.pass = 2) => out.v = normalize(inp.v, inp.store)

(***************************************************************************)
(* Rows without a slot.                                                    *)
(***************************************************************************)
\* The rows of revision v of file f whose slot cell is a number.
ParseableRows(f, v) ==
  Cardinality({i \in 1..Len(RawCsv(f, v).rows) :
                 to_numeric(RawCsv(f, v).rows[i]["slot"]) # Null})

\* C19: a row whose slot is missing or unparsable is dropped by
\* normalization: no frame waiting for the merge holds a row with a null
\* slot, and the row count the ledger keeps for a file is the number of rows
\* of the file that have a slot.
C19_NullSlotDropped ==
  /\ \A g \in 1..Len(bucket) : \A k \in 1..Len(bucket[g].items) :
       \A i \in 1..Len(bucket[g].items[k].df) : bucket[g].items[k].df[i]["slot"] # Null
  /\ \A f \in DOMAIN ledger :
       ledger[f].rows \in {ParseableRows(f, v) : v \in 0..MaxRev(f)}

(***************************************************************************)
(* list_csv_recursive.                                                     *)
(***************************************************************************)
\* Node i is reachable from the root through folders that are not in the
\* trash, and is not in the trash itself.
RECURSIVE Live(_, _)
Live(tr, i) == i = 0 \/ (i \notin tr.trashed /\ Live(tr, tr.par[i]))

\* The path of node i: its parent's path, "/", its name; empty for the root.
RECURSIVE PathOf(_, _)
PathOf(tr, i) == IF i = 0 THEN <<>> ELSE PathOf(tr, tr.par[i]) \o <<"/">> \o NodeName(tr, i)

ScanDone == scan.pos = "done"

\* The scan returned the files of the set ids, each once and with its path.
Returned(ids) ==
  /\ {scan.all_files[k].id : k \in 1..Len(scan.all_files)} = ids
  /\ Len(scan.all_files) = Cardinality(ids)
  /\ \A k \in 1..Len(scan.all_files) :
       scan.all_files[k].path = PathOf(scan.tree, scan.all_files[k].id)

\* Every folder in the set dirs was requested from its first page on, each
\* continuation token was sent back in the next request, and the last
\* request for the folder got no token.
ListedThrough(dirs) ==
  /\ \A d \in dirs : \E k \in 1..Len(scan.calls) : scan.calls[k].fid = d /\ scan.calls[k].next = 0
  /\ \A k \in 1..Len(scan.calls) :
       /\ scan.calls[k].next # 0 =>
            /\ k < Len(scan.calls)
            /\ scan.calls[k + 1].fid = scan.calls[k].fid
            /\ scan.calls[k + 1].token = scan.calls[k].next
       /\ (k = 1 \/ scan.calls[k - 1].next = 0) => scan.calls[k].token = 0

\* C20 as stated: the scan of a finite tree terminates and returns exactly
\* the files below the root whose name ends in ".csv", each once, with the
\* path parent path + "/" + name, every folder listed through all its pages.
C20_ScanAsClaimed ==
  /\ <>ScanDone
  /\ [](ScanDone =>
          /\ Returned({i \in 1..scan.tree.n : scan.tree.kind[i] = ".csv"})
          /\ ListedThrough({0} \cup {i \in 1..scan.tree.n : IsFolder(scan.tree, i)}))

\* C20 amended: the scan of a finite tree terminates and returns exactly the
\* files whose name ends in ".csv" in any letter case and that are reachable
\* from the root without passing through the trash, each once, with the path
\* parent path + "/" + name; every such folder is listed through all its
\* pages until no continuation token is returned.
C20_ScanExact ==
  /\ <>ScanDone
  /\ [](ScanDone =>
          /\ Returned({i \in 1..scan.tree.n :
                         scan.tree.kind[i] \in {".csv", ".CSV"} /\ Live(scan.tree, i)})
          /\ ListedThrough({0} \cup {i \in 1..scan.tree.n :
                                       IsFolder(scan.tree, i) /\ Live(scan.tree, i)}))

\* The scan has returned from a tree with a ".CSV" file, a file two folders
\* down and a folder it needed two requests for.
C20_Witness ==
  /\ ScanDone
  /\ \E k \in 1..Len(scan.all_files) : scan.tree.kind[scan.all_files[k].id] = ".CSV"
  /\ \E k \in 1..Len(scan.all_files) : Len(scan.all_files[k].path) = 7
  /\ \E k \in 1..Len(scan.calls) : scan.calls[k].next # 0

(***************************************************************************)
(* Listing errors.                                                         *)
(***************************************************************************)
\* C21: a listing error on one folder does not discard the files already
\* collected from other folders: whatever the scan has collected before a
\* step, a failed request included, is still in its result after the step.
C21_CollectedKept ==
  [][\A k \in 1..Len(scan.all_files) :
       \E j \in 1..Len(scan'.all_files) : scan'.all_files[j] = scan.all_files[k]]_vars

(***************************************************************************)
(* One file, end to end.                                                   *)
(***************************************************************************)
\* Revision v of file f has rows, each with a slot number of its own.
ValidRows(f, v) ==
  LET raw == RawCsv(f, v)
  IN /\ raw.kind = "ok" /\ Len(raw.rows) > 0
     /\ \A i \in 1..Len(raw.rows) : raw.rows[i]["slot"].k = "int"
     /\ \A i, j \in 1..Len(raw.rows) : i # j => raw.rows[i]["slot"] # raw.rows[j]["slot"]

\* The invocation handles one file, item, of a mapped store: its only batch
\* holds that file, the listing it was taken from is current, and nothing
\* has been written to the store or the ledger before.
SingleFileRun(item) ==
  /\ bi = 1 /\ Len(LoopBatches(batches, cfg)) = 1 /\ Len(batches[1]) = 1
  /\ ledger = <<>> /\ \A t \in Tables : db[t].rows = {}
  /\ remote[item.file_id] >= 1
  /\ item.md5 = Md5Checksum(remote[item.file_id])
  /\ ValidRows(item.file_id, remote[item.file_id])

\* C22: starting from an empty ledger and empty relations, an invocation
\* that handles a single file of a mapped store with valid rows, the store
\* reporting no error, leaves in the store's table exactly one row per row of
\* the file, keyed by (the file's date, its machine, the row's slot) and with
\* the normalized ratio, leaves the other tables empty, and commits to the
\* ledger exactly one entry, for that file, with the file's checksum and the
\* number of rows merged.
C22_SingleFileEndToEnd ==
  [][/\ (/\ pc = "merge" /\ Len(bucket) = 1 /\ Len(bucket[1].items) = 1
         /\ SingleFileRun(bucket[1].items[1])
         /\ errors' = errors /\ pc' = "commit")
        => LET item == bucket[1].items[1]
               f == item.file_id
               raw == RawCsv(f, remote[f]).rows
               rows == db'[TableName(PathMeta[item.file_id].store)].rows
           IN /\ Keys(rows) = {<<DateVal(PathMeta[item.file_id].date), TextV(PathMeta[item.file_id].machine),
                                 raw[i]["slot"]>> : i \in 1..Len(raw)}
              /\ Cardinality(rows) = Len(raw)
              /\ \A i \in 1..Len(raw) : \E r \in rows :
                   r["slot"] = raw[i]["slot"] /\ r["BBp"] = NormProb(raw[i]["BBp"])
              /\ \A t \in Tables \ {TableName(PathMeta[item.file_id].store)} : db'[t].rows = {}
              /\ Len(entries') = 1
              /\ entries'[1].file_id = f
              /\ entries'[1].entry.md5 = Md5Checksum(remote[f])
              /\ entries'[1].entry.rows = Cardinality(rows)
     /\ (pc = "commit" /\ ledger = <<>> /\ Len(entries) = 1)
        => /\ DOMAIN ledger' = {entries[1].file_id}
           /\ ledger'[entries[1].file_id] = entries[1].entry]_vars

\* The scenario of the specification has run: file 1 with checksum h1 and
\* the row (slot 7, "1/133") was the only file handled, the table of StoreA
\* holds the one row (2024-01-01, MachineX, 7) with ratio 1/133 and the
\* ledger the one entry (file 1, h1, 1 row).
C22_Witness ==
  /\ pc = "done" /\ Len(LoopBatches(batches, cfg)) = 1 /\ Len(batches[1]) = 1
  /\ DOMAIN ledger = {1}
  /\ ledger[1].md5 = "h1" /\ ledger[1].rows = 1
  /\ Cardinality(db["slot_StoreA"].rows) = 1
  /\ \E r \in db["slot_StoreA"].rows :
       /\ PK(r) = <<DateVal(20240101), TextV("MachineX"), IntV(7)>>
       /\ r["BBp"] = FloatV(1, 133)
  /\ db["slot_StoreB"].rows = {}

(***************************************************************************)
(* The order of the phases of a batch.                                     *)
(***************************************************************************)
\* C23: no table is provisioned or written and no relation group is taken up
\* while a fetch-normalize task of the batch is still pending; the ledger is
\* written only when every relation group of the batch has been handled; and
\* when the tasks of the next batch are started, the entries of the current
\* batch are in the ledger.
C23_PhaseOrder ==
  [][/\ (db' # db \/ gi' > gi) => (pc = "merge" /\ futures = <<>>)
     /\ (ledger' # ledger) => (pc = "commit" /\ gi = Len(bucket))
     /\ (Len(futures') < Len(futures)) => (pc = "fetch" /\ gi = 0 /\ entries = <<>>)
     /\ (bi' = bi + 1 /\ bi >= 1)
          => /\ pc = "commit" /\ futures = <<>>
             /\ \A i \in 1..Len(entries) :
                  /\ entries[i].file_id \in DOMAIN ledger'
                  /\ ledger'[entries[i].file_id] = entries[i].entry]_vars

\* The tasks of the second batch are running, the first batch having
\* merged rows and committed its entries.
C23_Witness ==
  /\ pc = "fetch" /\ bi = 2 /\ Len(futures) > 0
  /\ DOMAIN ledger # {}
  /\ \E t \in Tables : db[t].rows # {}

(***************************************************************************)
(* Who writes.                                                             *)
(***************************************************************************)
\* C24: the completion of a fetch-normalize task changes no table and no
\* ledger entry, and nothing is written while tasks are pending; a step that
\* changes a table is the writer taking up the next relation group, it
\* changes the table of that group only, and the groups of a batch are for
\* pairwise different tables, so each table is provisioned and written by one
\* step of the one writer.
C24_SingleWriter ==
  [][/\ (Len(futures') < Len(futures) \/ pc = "fetch") => (db' = db /\ ledger' = ledger)
     /\ (db' # db) =>
          /\ pc = "merge" /\ futures = <<>> /\ gi < Len(bucket)
          /\ \A t \in Tables \ {bucket[gi + 1].table_name} : db'[t] = db[t]
          /\ \A i \in 1..gi : bucket[i].table_name # bucket[gi + 1].table_name
     /\ \A i, j \in 1..Len(bucket) : i # j => bucket[i].table_name # bucket[j].table_name]_vars

\* The writer has handled the first of two relation groups of a batch and
\* is about to take up the second.
C24_Witness ==
  /\ pc = "merge" /\ gi = 1 /\ Len(bucket) = 2
  /\ db[bucket[1].table_name].rows # {}

(***************************************************************************)
(* Fast path and fallback.                                                 *)
(***************************************************************************)
\* The fast path on the group the writer is about to take up, the server
\* not failing it.
FastNow == bulk_upsert_copy_merge(TableNow, FrameNow, TRUE)

\* The step left the table the fast path commits and reported nothing: the
\* fast path succeeded and the fallback did not run.
FastOnly ==
  /\ FastNow.ok
  /\ errors' = errors
  /\ db'[GroupNow.table_name] = FastNow.t

\* C25: with use_copy set, a step on a relation group either is the fast
\* path alone, succeeding, with no fallback message and no fallback write,
\* or it reports the fast path's failure and is the fallback run on the table
\* the failed fast path left untouched; a group the fast path cannot accept
\* always takes the second way.  With use_copy cleared the fast path is not
\* attempted: no fast-path failure is ever reported and the table is the one
\* the row-wise statements leave.
C25_FallbackIffFastFailed ==
  [][(pc = "merge") =>
       IF cfg.use_copy
       THEN /\ \/ FastOnly
               \/ \E env \in [1..Len(FilledNow) -> StmtEnv] : FallbackRanWith(env)
            /\ ~FastNow.ok => ~FastOnly
            /\ FastOnly => \A env \in [1..Len(FilledNow) -> StmtEnv] : ~FallbackRanWith(env)
       ELSE /\ errors' = errors
            /\ \E env \in [1..Len(GroupNow.items) -> StmtEnv] :
                 db'[GroupNow.table_name] = SafePath(TableNow, GroupNow.items, env).t]_vars

\* A relation group the fast path rejected has been merged by the fallback:
\* the failure was reported and the rows are in the table.
C25_Witness ==
  /\ cfg.use_copy /\ pc \in {"merge", "commit"} /\ gi >= 1
  /\ \E i \in 1..Len(errors) : errors[i].kind = "copy"
  /\ \E t \in Tables : db[t].rows # {}

(***************************************************************************)
(* The batches.                                                            *)
(***************************************************************************)
RECURSIVE Flat(_)
Flat(seqs) == IF Len(seqs) = 0 THEN <<>> ELSE Head(seqs) \o Flat(Tail(seqs))

\* The handler has a delta set and has sliced it.
Scheduled == pc \in {"fetch", "merge", "commit", "done", "crashed"} /\ Len(all_targets) > 0

\* What the statement says of the slices, apart from what they add up to:
\* the delta set is in ascending date order, every batch but the last holds
\* max_files files and the last between 1 and max_files, no file is in two
\* batches, and a file of an earlier batch is not dated later than a file of
\* a later batch.
SlicesInOrder ==
  /\ \A i, j \in 1..Len(all_targets) :
       i < j => PathMeta[all_targets[i].id].date <= PathMeta[all_targets[j].id].date
  /\ \A i \in 1..Len(batches) :
       /\ Len(batches[i]) \in 1..cfg.max_files
       /\ i < Len(batches) => Len(batches[i]) = cfg.max_files
  /\ \A i, j \in 1..Len(batches) : i # j => IdsOf(batches[i]) \cap IdsOf(batches[j]) = {}
  /\ \A i, j \in 1..Len(batches) :
       i < j => \A a \in 1..Len(batches[i]) : \A b \in 1..Len(batches[j]) :
                  PathMeta[batches[i][a].id].date <= PathMeta[batches[j][b].id].date

\* C26 as stated: the batches are consecutive slices of the delta set sorted
\* by date, pairwise disjoint, each but the last of max_files files, ordered
\* by date across batches, and their concatenation is the whole delta set.
C26_BatchesCoverDelta ==
  Scheduled => (SlicesInOrder /\ Flat(batches) = all_targets)

\* C26 amended: the batches are the first consecutive slices of the delta
\* set sorted by date: all of them when auto_batch is set, so that their
\* concatenation is the whole delta set, and the first one alone when it is
\* not; they are pairwise disjoint, each but the last of max_files files and
\* ordered by date; the loop takes the first max_batches of them in index
\* order, one after the other.
C26_BatchesPrefixInOrder ==
  [][/\ Scheduled =>
          /\ SlicesInOrder
          /\ Flat(batches) = SubSeq(all_targets, 1, Len(Flat(batches)))
          /\ cfg.auto_batch => Flat(batches) = all_targets
          /\ ~cfg.auto_batch => Len(batches) = 1
          /\ bi \in 1..Min(Len(batches), cfg.max_batches)
     /\ (Scheduled /\ bi' # bi /\ pc' # "idle") =>
          /\ bi' = bi + 1
          /\ futures' = batches[bi + 1]
     /\ (Started /\ Len(all_targets') > 0) => (bi' = 1 /\ futures' = batches'[1])]_vars

\* The second of two batches is running: the first held max_files files,
\* all of them dated before the files of the second.
C26_Witness ==
  /\ pc = "fetch" /\ bi = 2 /\ Len(batches) = 2 /\ cfg.max_files = 2
  /\ Len(batches[1]) = 2
  /\ \A a \in 1..Len(batches[1]) : \A b \in 1..Len(batches[2]) :
       PathMeta[batches[1][a].id].date < PathMeta[batches[2][b].id].date

(***************************************************************************)
(* Provisioning of the store tables.                                       *)
(***************************************************************************)
\* The canonical columns of a store's entry in the column map.
Canonical(s) == {c \in {"slot", "BB", "BBp"} : \E x \in DOMAIN COLUMN_MAP[s] : COLUMN_MAP[s][x] = c}

\* C27: ensure_store_table is idempotent.  Called for a store whose table
\* does not exist it gives an empty table whose columns are the key (date,
\* machine, slot) and the canonical columns of the store; called for a store
\* whose table exists it gives that table, columns and rows unchanged, and
\* so does a second call after the first; no step of the pipeline changes
\* the column set of a table that exists, and a table a step creates has
\* the columns above.
C27_EnsureIdempotent ==
  [][\A s \in Stores :
       LET t == db[TableName(s)]
           e == ensure_store_table(t, s)
           u == db'[TableName(s)]
       IN /\ e.exists
          /\ ensure_store_table(e, s) = e
          /\ t.exists => e = t
          /\ ~t.exists => (e.rows = {} /\ e.cols = {"date", "machine", "slot"} \cup Canonical(s))
          /\ t.exists => (u.exists /\ u.cols = t.cols)
          /\ (~t.exists /\ u.exists) => u.cols = {"date", "machine", "slot"} \cup Canonical(s)]_vars

\* In the second batch of an invocation a group was merged into a table an
\* earlier batch had created and filled.
C27_Witness ==
  /\ pc \in {"merge", "commit"} /\ bi = 2 /\ gi >= 1
  /\ db[bucket[gi].table_name].rows # {}
  /\ \E f \in DOMAIN ledger : PathMeta[f].ok /\ TableName(PathMeta[f].store) = bucket[gi].table_name

(***************************************************************************)
(* The import log.                                                         *)
(***************************************************************************)
\* C28: import_log holds one entry per file id and no step removes a file
\* id from it.  The log changes only at the commit of a batch; the commit
\* leaves every file id of the batch with the entry built for it (checksum,
\* row count and the other columns of that entry), whether the file id was
\* in the log or not, adds no other file id and leaves the entry of every
\* other file id as it was.
C28_LedgerUpsert ==
  [][/\ DOMAIN ledger \subseteq DOMAIN ledger'
     /\ ledger' # ledger => pc = "commit"
     /\ pc = "commit" =>
          LET ids == {entries[i].file_id : i \in 1..Len(entries)}
          IN /\ DOMAIN ledger' = DOMAIN ledger \cup ids
             /\ \A i, j \in 1..Len(entries) : entries[i].file_id = entries[j].file_id => i = j
             /\ \A i \in 1..Len(entries) :
                  /\ ledger'[entries[i].file_id].md5 = entries[i].entry.md5
                  /\ ledger'[entries[i].file_id].rows = entries[i].entry.rows
                  /\ ledger'[entries[i].file_id] = entries[i].entry
             /\ \A f \in DOMAIN ledger \ ids : ledger'[f] = ledger[f]]_vars

\* A batch is about to be committed that holds a file whose entry in the
\* log has another checksum, while the log holds an entry of a file that is
\* not in the batch.
C28_Witness ==
  /\ pc = "commit"
  /\ \E i \in 1..Len(entries) :
       /\ entries[i].file_id \in DOMAIN ledger
       /\ ledger[entries[i].file_id].md5 # entries[i].entry.md5
  /\ \E f \in DOMAIN ledger : \A i \in 1..Len(entries) : entries[i].file_id # f

(***************************************************************************)
(* The order in which the tasks of a batch complete.                       *)
(***************************************************************************)
\* The collector loop over as_completed, for results that complete in the
\* order of the sequence results.
RECURSIVE Collect(_, _, _)
Collect(b, results, i) ==
  IF i > Len(results) THEN b
  ELSE Collect(BucketAppend(b, results[i]), results, i + 1)

\* "for table_name, items in bucket.items()" from group i on, when no
\* statement fails for a reason outside the data.  st = [db, entries,
\* raised]: the safe path lets the first exception out of the function.
RECURSIVE MergeLoop(_, _, _, _)
MergeLoop(st, bkt, use_copy, i) ==
  IF i > Len(bkt) THEN st
  ELSE LET g == bkt[i]
           tbl == ensure_store_table(st.db[g.table_name], g.items[1].store)
           env == [k \in 1..Len(g.items) |-> "ok"]
           logged == st.entries \o [k \in 1..Len(g.items) |->
                                     [file_id |-> g.items[k].file_id,
                                      entry |-> LogEntry(g.items[k])]]
       IN IF use_copy
          THEN With(CopyPath(tbl, g.items, TRUE, env), LAMBDA cp :
                 MergeLoop([db |-> [st.db EXCEPT ![g.table_name] = cp.t],
                            entries |-> logged, raised |-> FALSE], bkt, use_copy, i + 1))
          ELSE With(SafePath(tbl, g.items, env), LAMBDA sp :
                 IF sp.raised
                 THEN [db |-> [st.db EXCEPT ![g.table_name] = sp.t],
                       entries |-> st.entries, raised |-> TRUE]
                 ELSE MergeLoop([db |-> [st.db EXCEPT ![g.table_name] = sp.t],
                                 entries |-> logged, raised |-> FALSE], bkt, use_copy, i + 1))

\* The store tables and import_log as the batch leaves them when the
\* collector has built bkt: the entries are committed unless the merge
\* raised out of run_import_for_targets.
BatchOutcome(bkt) ==
  With(MergeLoop([db |-> db, entries |-> <<>>, raised |-> FALSE], bkt, cfg.use_copy, 1),
       LAMBDA r : [db |-> r.db,
                   ledger |-> IF r.raised THEN ledger ELSE upsert_import_log(ledger, r.entries)])

\* The results the collector holds, in the order of the groups.
Collected == Flat([i \in 1..Len(bucket) |-> bucket[i].items])

\* The buckets the collector builds from the same results completing in
\* another order.
OtherOrders ==
  {Collect(<<>>, [i \in 1..Len(Collected) |-> Collected[p[i]]], 1) :
     p \in Permutations(1..Len(Collected))}

\* C29 (as claimed): when the tasks of a batch have all completed, the store
\* tables and import_log the batch leaves behind are the same whatever the
\* order in which the tasks completed.
C29_OrderIndependent ==
  (pc = "merge" /\ gi = 0) =>
     \A b \in OtherOrders : BatchOutcome(b) = BatchOutcome(bucket)

(***************************************************************************)
(* The upsert of the standalone data manager.                              *)
(***************************************************************************)
\* C30 (as claimed): after upsert(df), every row of df is in slot_data as df
\* gives it, whether its key was in the table or not, and the rows of the
\* keys df does not hold are as they were: a second import of the same
\* keys leaves the values of the second frame.
C30_InsertOrOverwrite ==
  [][(inp.fn = "upsert" /\ out'.pass = out.pass + 1) =>
       LET df == inp.v[out'.pass]
       IN /\ \A i \in 1..Len(df) : df[i] \in out'.v
          /\ \A r \in out.v :
               (\A i \in 1..Len(df) : SlotDataKey(df[i]) # SlotDataKey(r)) => r \in out'.v
          /\ \A r \in out'.v : \A q \in out'.v : SlotDataKey(r) = SlotDataKey(q) => r = q]_vars

====
